---- MODULE Spec2Model ----
(***************************************************************************)
(* A model of the OpenCALL contract layer: the dispatch/validation stage   *)
(* functions of src/src/validate.ts and the registry builders of           *)
(* registry.ts.                                                            *)
(*                                                                         *)
(* JavaScript values are modelled as follows.                              *)
(*   - A value of type `unknown` is a tagged record: JsUndefined, JsNull,  *)
(*     JsStr(s), JsNum(n), JsBool(b), JsObj(fields).                       *)
(*   - An object of a declared type is a TLA+ function whose domain is the *)
(*     set of keys the object carries.  A key holding `undefined` is not   *)
(*     told apart from a missing key: no code of the repository reads the  *)
(*     difference (every read is `x.k`, `x.k !== undefined`, `!x.k`, or    *)
(*     JSON.stringify, which drops such keys).                             *)
(*   - Strings are TLA+ strings; the regular expressions and string        *)
(*     methods of the code are computed on them character by character.    *)
(*                                                                         *)
(* Five specifications share the variables: Spec (the stage functions      *)
(* called one at a time), SpecDispatch (requests running through the       *)
(* stages concurrently), SpecBuild (the two registry builders), SpecRepeat *)
(* (two builds, one after the other) and SpecParse (parseJSDoc called on   *)
(* source texts).                                                          *)
(***************************************************************************)
EXTENDS Integers, Sequences, FiniteSets, TLC

\* The largest reading of the millisecond clock (Date.now()) the model reaches.
MaxClock == 4

\* The number of requests in flight at once.
NumRequests == 2

\* The most files in a directory listing, and module entries in a build.
MaxSources == 2

VARIABLES
    now,        \* the reading of Date.now(), in milliseconds
    call,       \* the library call in progress or just returned, or Idle
    modules,    \* the module map the dispatcher resolves operations in
    reqs,       \* the state of each request being dispatched
    build,      \* the registry build in progress or just finished, or NoBuild
    prior       \* the finished build the caller kept, or NoBuild

vars == <<now, call, modules, reqs, build, prior>>

-----------------------------------------------------------------------------
(* JavaScript values of type `unknown` *)

JsUndefined == [t |-> "undefined"]
JsNull == [t |-> "null"]
JsStr(s) == [t |-> "string", s |-> s]
JsNum(n) == [t |-> "number", n |-> n]
JsBool(b) == [t |-> "boolean", b |-> b]
JsObj(fields) == [t |-> "object", o |-> fields]
JsArr(elems) == [t |-> "array", a |-> elems]
\* The number n + 1/2: a number that is not an integer.
JsHalf(n) == [t |-> "number", n |-> n, half |-> TRUE]

\* ToBoolean: what `if (v)` and `!v` test.
Truthy(v) ==
    CASE v.t = "undefined" -> FALSE
      [] v.t = "null" -> FALSE
      [] v.t = "string" -> v.s # ""
      [] v.t = "number" -> (v.n # 0 \/ "half" \in DOMAIN v)
      [] v.t = "boolean" -> v.b
      [] OTHER -> TRUE

\* String(v) of a value that is not an Error.
JsString(v) ==
    CASE v.t = "undefined" -> "undefined"
      [] v.t = "null" -> "null"
      [] v.t = "string" -> v.s
      [] v.t = "number" ->
            (IF "half" \in DOMAIN v THEN ToString(v.n) \o ".5" ELSE ToString(v.n))
      [] v.t = "array" -> "[array]"
      [] v.t = "boolean" -> (IF v.b THEN "true" ELSE "false")
      [] OTHER -> "[object Object]"

\* The object without keys, and object spread / property assignment.
EmptyObj == <<>>
Has(o, k) == k \in DOMAIN o
\* `o.k` read as an unknown: JsUndefined when the key is missing.
Get(o, k) == IF Has(o, k) THEN o[k] ELSE JsUndefined
\* { ...o, k: v }
With(o, k, v) == (k :> v) @@ o
\* The key k holding the string of an optional string argument, if defined.
OptStr(k, v) == IF v = JsUndefined THEN EmptyObj ELSE (k :> v.s)
\* The set of objects that carry key k with a value of S, or do not carry it.
Opt(k, S) == {EmptyObj} \cup {k :> v : v \in S}

-----------------------------------------------------------------------------
(* errors.ts: DomainError, domainError, protocolError *)

\* new DomainError(code, message, cause?)
DomainError(code, message, cause) ==
    [t |-> "DomainError", code |-> code, message |-> message, cause |-> cause]

\* domainError(requestId, code, message, cause?): the error response envelope.
domainError(requestId, code, message, cause) ==
    [requestId |-> requestId,
     state |-> "error",
     error |-> [code |-> code, message |-> message]
               @@ (IF cause = JsUndefined THEN EmptyObj ELSE ("cause" :> cause))]

\* The request id protocolError generates (crypto.randomUUID()).
GeneratedRequestId == "generated-uuid"

\* protocolError(code, message, httpStatus): a DispatchResult.
protocolError(code, message, httpStatus) ==
    [status |-> httpStatus,
     body |-> [requestId |-> GeneratedRequestId,
               state |-> "error",
               error |-> [code |-> code, message |-> message]]]

-----------------------------------------------------------------------------
(* Date *)

\* new Date(s).getTime(): the instant of a date string, or NaN.
DateGetTime(s) ==
    CASE s = "1970-01-01" -> [nan |-> FALSE, ms |-> 0]
      [] s = "1970-01-01T00:00:00.002Z" -> [nan |-> FALSE, ms |-> 2]
      [] s = "1970-01-01T00:00:00.003Z" -> [nan |-> FALSE, ms |-> 3]
      [] OTHER -> [nan |-> TRUE]

\* A comparison that takes an invalid date for the epoch.
JsGreater_InvalidIsEpoch(a, b) == IF b.nan THEN a > 0 ELSE a > b.ms

\* a > b for a number a and a number-or-NaN b: false when b is NaN.
JsGreater(a, b) == (~b.nan) /\ a > b.ms

-----------------------------------------------------------------------------
(* The schema engine (zod): safeParse of a value against a schema.          *)
(* A schema is a structural description; safeParse yields the issues, each  *)
(* a path (the keys and indexes leading to the violation) with a message,   *)
(* and, when there are none, the parsed data.                               *)

ZString == [k |-> "string"]
ZNumber == [k |-> "number"]
ZUuid == [k |-> "uuid"]
ZPositiveInt == [k |-> "positiveInt"]
ZUnknown == [k |-> "unknown"]
ZRecord == [k |-> "record"]
ZOptional(inner) == [k |-> "optional", inner |-> inner]
ZDefault(inner, dflt) == [k |-> "default", inner |-> inner, dflt |-> dflt]
ZArray(elem) == [k |-> "array", elem |-> elem]
\* fields: a sequence of <<key, schema>>, in declaration order.
ZObject(fields) == [k |-> "object", fields |-> fields]

\* A path element: an object key or an array index.
Key(s) == [key |-> s]
Index(i) == [index |-> i]

\* z.uuid() accepts the strings of the UUID format.
IsUuid(s) ==
    s \in {"550e8400-e29b-41d4-a716-446655440000",
           "660e8400-e29b-41d4-a716-446655440000"}

\* typeof-like name zod puts in its messages.
ZReceived(v) == IF v.t = "number" /\ "half" \in DOMAIN v THEN "number" ELSE v.t

ZIssue(message) == [path |-> <<>>, message |-> message]
ZExpected(what, v) ==
    <<ZIssue("Invalid input: expected " \o what \o ", received " \o ZReceived(v))>>

\* The issues of a nested parse, each path prefixed with the element e.
ZPrefix(e, issues) ==
    [i \in 1..Len(issues) |->
        [path |-> <<e>> \o issues[i].path, message |-> issues[i].message]]

ZOk(data) == [issues |-> <<>>, data |-> data]
ZFail(issues) == [issues |-> issues, data |-> JsUndefined]

RECURSIVE ZodParse(_, _)
RECURSIVE ZodParseFields(_, _, _)
RECURSIVE ZodParseElems(_, _, _)

\* The fields of an object schema from the i-th on: the issues and the
\* parsed fields (a key whose parsed value is undefined is left out).
ZodParseFields(fields, obj, i) ==
    IF i > Len(fields) THEN [issues |-> <<>>, data |-> EmptyObj]
    ELSE LET key == fields[i][1]
             r == ZodParse(fields[i][2], Get(obj, key))
             rest == ZodParseFields(fields, obj, i + 1)
         IN [issues |-> ZPrefix(Key(key), r.issues) \o rest.issues,
             data |-> IF r.data = JsUndefined THEN rest.data
                      ELSE With(rest.data, key, r.data)]

\* The elements of an array from the i-th on.
ZodParseElems(elem, arr, i) ==
    IF i > Len(arr) THEN [issues |-> <<>>, data |-> <<>>]
    ELSE LET r == ZodParse(elem, arr[i])
             rest == ZodParseElems(elem, arr, i + 1)
         IN [issues |-> ZPrefix(Index(i - 1), r.issues) \o rest.issues,
             data |-> <<r.data>> \o rest.data]

\* schema.safeParse(v)
ZodParse(schema, v) ==
    CASE schema.k = "unknown" -> ZOk(v)
      [] schema.k = "string" ->
            IF v.t = "string" THEN ZOk(v) ELSE ZFail(ZExpected("string", v))
      [] schema.k = "number" ->
            IF v.t = "number" THEN ZOk(v) ELSE ZFail(ZExpected("number", v))
      [] schema.k = "uuid" ->
            IF v.t # "string" THEN ZFail(ZExpected("string", v))
            ELSE IF IsUuid(v.s) THEN ZOk(v)
            ELSE ZFail(<<ZIssue("Invalid UUID")>>)
      [] schema.k = "positiveInt" ->
            IF v.t # "number" THEN ZFail(ZExpected("number", v))
            ELSE IF "half" \in DOMAIN v THEN ZFail(ZExpected("int", v))
            ELSE IF v.n <= 0
            THEN ZFail(<<ZIssue("Too small: expected number to be >0")>>)
            ELSE ZOk(v)
      [] schema.k = "record" ->
            IF v.t = "object" THEN ZOk(v) ELSE ZFail(ZExpected("record", v))
      [] schema.k = "optional" ->
            IF v = JsUndefined THEN ZOk(v) ELSE ZodParse(schema.inner, v)
      [] schema.k = "default" ->
            IF v = JsUndefined THEN ZOk(schema.dflt) ELSE ZodParse(schema.inner, v)
      [] schema.k = "array" ->
            IF v.t # "array" THEN ZFail(ZExpected("array", v))
            ELSE LET r == ZodParseElems(schema.elem, v.a, 1)
                 IN IF r.issues = <<>> THEN ZOk(JsArr(r.data)) ELSE ZFail(r.issues)
      [] schema.k = "object" ->
            IF v.t # "object" THEN ZFail(ZExpected("object", v))
            ELSE LET r == ZodParseFields(schema.fields, v.o, 1)
                 IN IF r.issues = <<>> THEN ZOk(JsObj(r.data)) ELSE ZFail(r.issues)

\* path.join("."): the elements of a (string | number)[] joined with dots.
RECURSIVE JoinPath(_)
JoinPath(path) ==
    IF path = <<>> THEN ""
    ELSE LET head == IF "key" \in DOMAIN path[1] THEN path[1].key
                     ELSE ToString(path[1].index)
         IN IF Len(path) = 1 THEN head ELSE head \o "." \o JoinPath(Tail(path))

\* strs.join(sep)
RECURSIVE JoinStrings(_, _)
JoinStrings(strs, sep) ==
    IF strs = <<>> THEN ""
    ELSE IF Len(strs) = 1 THEN strs[1]
    ELSE strs[1] \o sep \o JoinStrings(Tail(strs), sep)

-----------------------------------------------------------------------------
(* envelope.ts: RequestEnvelopeSchema *)

RequestEnvelopeSchema ==
    ZObject(<<
        <<"op", ZString>>,
        <<"args", ZDefault(ZOptional(ZRecord), JsObj(EmptyObj))>>,
        <<"ctx", ZOptional(ZObject(<<
            <<"requestId", ZUuid>>,
            <<"sessionId", ZOptional(ZUuid)>>,
            <<"parentId", ZOptional(ZUuid)>>,
            <<"idempotencyKey", ZOptional(ZString)>>,
            <<"timeoutMs", ZOptional(ZPositiveInt)>>,
            <<"locale", ZOptional(ZString)>>,
            <<"traceparent", ZOptional(ZString)>> >>))>>,
        <<"auth", ZOptional(ZObject(<<
            <<"iss", ZString>>,
            <<"sub", ZString>>,
            <<"credentialType", ZString>>,
            <<"credential", ZOptional(ZString)>> >>))>>,
        <<"media", ZOptional(ZArray(ZObject(<<
            <<"name", ZString>>,
            <<"mimeType", ZString>>,
            <<"ref", ZOptional(ZString)>>,
            <<"part", ZOptional(ZString)>> >>)))>> >>)

-----------------------------------------------------------------------------
(* validate.ts: validateEnvelope *)

\* validateEnvelope without the `!envelope.op` check.
validateEnvelope_NoOpCheck(rawBody) ==
    LET parseResult == ZodParse(RequestEnvelopeSchema, rawBody)
        issues == parseResult.issues
        message ==
            JoinStrings([i \in 1..Len(issues) |->
                            JoinPath(issues[i].path) \o ": " \o issues[i].message],
                        "; ")
    IN IF issues # <<>>
       THEN [ok |-> FALSE,
             error |-> protocolError("INVALID_ENVELOPE",
                                     "Invalid request envelope: " \o message, 400)]
       ELSE [ok |-> TRUE, envelope |-> parseResult.data.o]

validateEnvelope(rawBody) ==
    LET parseResult == ZodParse(RequestEnvelopeSchema, rawBody)
        issues == parseResult.issues
        message ==
            JoinStrings([i \in 1..Len(issues) |->
                            JoinPath(issues[i].path) \o ": " \o issues[i].message],
                        "; ")
    IN IF issues # <<>>
       THEN [ok |-> FALSE,
             error |-> protocolError("INVALID_ENVELOPE",
                                     "Invalid request envelope: " \o message, 400)]
       ELSE IF ~Truthy(parseResult.data.o.op)
       THEN [ok |-> FALSE,
             error |-> protocolError("INVALID_ENVELOPE",
                                     "Missing required field: op", 400)]
       ELSE [ok |-> TRUE, envelope |-> parseResult.data.o]

-----------------------------------------------------------------------------
(* validate.ts: validateArgs *)

\* The argument schemas of the operation modules, by name.
ArgsSchema(name) ==
    CASE name = "testArgs" ->
            ZObject(<< <<"name", ZString>>, <<"age", ZOptional(ZNumber)>> >>)
      [] name = "greetingArgs" -> ZObject(<< <<"name", ZString>> >>)
      [] name = "orderArgs" ->
            ZObject(<< <<"address", ZObject(<< <<"city", ZString>> >>)>>,
                       <<"tags", ZArray(ZString)>> >>)
      [] OTHER -> ZObject(<<>>)

\* The 400 response listing the issues of the arguments.
SchemaValidationFailed(issues, requestId, sessionId) ==
    [status |-> 400,
     body |-> [requestId |-> requestId,
               state |-> "error",
               error |-> [code |-> "SCHEMA_VALIDATION_FAILED",
                          message |-> "Invalid operation arguments",
                          cause |-> [issues |-> issues]]]
              @@ OptStr("sessionId", sessionId)]

\* issues.map(i => ({ path: i.path.join("."), message: i.message }))
IssueList(zodIssues) ==
    [i \in 1..Len(zodIssues) |->
        [path |-> JoinPath(zodIssues[i].path), message |-> zodIssues[i].message]]

\* validateArgs reporting only the first issue.
validateArgs_FirstIssueOnly(operation, args, requestId, sessionId) ==
    LET argsResult == ZodParse(ArgsSchema(operation.args), args)
    IN IF argsResult.issues # <<>>
       THEN [ok |-> FALSE,
             error |-> SchemaValidationFailed(
                            IssueList(<<argsResult.issues[1]>>),
                            requestId, sessionId)]
       ELSE [ok |-> TRUE, data |-> argsResult.data]

validateArgs(operation, args, requestId, sessionId) ==
    LET argsResult == ZodParse(ArgsSchema(operation.args), args)
    IN IF argsResult.issues # <<>>
       THEN [ok |-> FALSE,
             error |-> SchemaValidationFailed(IssueList(argsResult.issues),
                                              requestId, sessionId)]
       ELSE [ok |-> TRUE, data |-> argsResult.data]

-----------------------------------------------------------------------------
(* validate.ts: checkSunset *)

\* OpRemoved with the body's state written as "complete".
OpRemoved_StateComplete(operation, opName, requestId, sessionId) ==
    [status |-> 410,
     body |-> [requestId |-> requestId,
               state |-> "complete",
               error |-> [code |-> "OP_REMOVED",
                          message |-> "Operation " \o opName
                                      \o " was removed on " \o operation.sunset,
                          cause |-> [removedOp |-> opName,
                                     sunset |-> operation.sunset]
                                    @@ (IF Has(operation, "replacement")
                                        THEN ("replacement" :> operation.replacement)
                                        ELSE EmptyObj)]]
              @@ OptStr("sessionId", sessionId)]

\* The 410 response of an operation past its sunset.
OpRemoved(operation, opName, requestId, sessionId) ==
    [status |-> 410,
     body |-> [requestId |-> requestId,
               state |-> "error",
               error |-> [code |-> "OP_REMOVED",
                          message |-> "Operation " \o opName
                                      \o " was removed on " \o operation.sunset,
                          cause |-> [removedOp |-> opName,
                                     sunset |-> operation.sunset]
                                    @@ (IF Has(operation, "replacement")
                                        THEN ("replacement" :> operation.replacement)
                                        ELSE EmptyObj)]]
              @@ OptStr("sessionId", sessionId)]

\* `!operation.sunset`: the module has no sunset, or an empty one.
NoSunset(operation) == ~Has(operation, "sunset") \/ operation.sunset = ""

\* checkSunset comparing with >= : removed already at the sunset instant.
checkSunset_AtSunset(operation, opName, requestId, sessionId, clock) ==
    IF NoSunset(operation) THEN JsUndefined
    ELSE IF ~DateGetTime(operation.sunset).nan
            /\ clock >= DateGetTime(operation.sunset).ms
    THEN OpRemoved(operation, opName, requestId, sessionId)
    ELSE JsUndefined

\* checkSunset answering OP_REMOVED in the first millisecond after the sunset
\* only.
checkSunset_FirstInstantOnly(operation, opName, requestId, sessionId, clock) ==
    IF NoSunset(operation) THEN JsUndefined
    ELSE IF ~DateGetTime(operation.sunset).nan
            /\ clock = DateGetTime(operation.sunset).ms + 1
    THEN OpRemoved(operation, opName, requestId, sessionId)
    ELSE JsUndefined

\* clock is the reading of Date.now() at the call.
checkSunset(operation, opName, requestId, sessionId, clock) ==
    IF NoSunset(operation) THEN JsUndefined
    ELSE IF JsGreater(clock, DateGetTime(operation.sunset))
    THEN OpRemoved(operation, opName, requestId, sessionId)
    ELSE JsUndefined

-----------------------------------------------------------------------------
(* validate.ts: formatResponse *)

\* ResponseOf with the state written as the literal "complete".
ResponseOf_StateComplete(opResult, requestId, sessionId) ==
    [requestId |-> requestId, state |-> "complete"]
    @@ OptStr("sessionId", sessionId)
    @@ (IF Get(opResult, "result") # JsUndefined
        THEN ("result" :> opResult.result) ELSE EmptyObj)
    @@ (IF Has(opResult, "location")
        THEN ("location" :> opResult.location) ELSE EmptyObj)
    @@ (IF Has(opResult, "retryAfterMs")
        THEN ("retryAfterMs" :> opResult.retryAfterMs) ELSE EmptyObj)
    @@ (IF Has(opResult, "expiresAt")
        THEN ("expiresAt" :> opResult.expiresAt) ELSE EmptyObj)

\* A response envelope in which an absent result is null and an absent
\* retryAfterMs is 0.
ResponseOf_Defaulted(opResult, requestId, sessionId) ==
    [requestId |-> requestId, state |-> opResult.state,
     result |-> IF Has(opResult, "result") THEN opResult.result ELSE JsNull,
     retryAfterMs |-> IF Has(opResult, "retryAfterMs") THEN opResult.retryAfterMs
                      ELSE 0]
    @@ OptStr("sessionId", sessionId)
    @@ (IF Has(opResult, "location")
        THEN ("location" :> opResult.location) ELSE EmptyObj)
    @@ (IF Has(opResult, "expiresAt")
        THEN ("expiresAt" :> opResult.expiresAt) ELSE EmptyObj)

\* The response envelope built from the handler's result.
ResponseOf(opResult, requestId, sessionId) ==
    [requestId |-> requestId, state |-> opResult.state]
    @@ OptStr("sessionId", sessionId)
    @@ (IF Get(opResult, "result") # JsUndefined
        THEN ("result" :> opResult.result) ELSE EmptyObj)
    @@ (IF Has(opResult, "location")
        THEN ("location" :> opResult.location) ELSE EmptyObj)
    @@ (IF Has(opResult, "retryAfterMs")
        THEN ("retryAfterMs" :> opResult.retryAfterMs) ELSE EmptyObj)
    @@ (IF Has(opResult, "expiresAt")
        THEN ("expiresAt" :> opResult.expiresAt) ELSE EmptyObj)

\* The HTTP status of the handler's result.
StatusOf(opResult) ==
    IF opResult.state = "accepted" THEN 202
    ELSE IF Has(opResult, "location") /\ ~Truthy(Get(opResult, "result")) THEN 303
    ELSE 200

formatResponse(opResult, requestId, sessionId, meta) ==
    LET response == ResponseOf(opResult, requestId, sessionId)
        body == IF Truthy(meta) THEN With(response, "meta", meta.o) ELSE response
    IN [status |-> StatusOf(opResult), body |-> body]

-----------------------------------------------------------------------------
(* validate.ts: safeHandlerCall *)

\* safeHandlerCall without the `instanceof DomainError` branch: every thrown
\* value is an unexpected error.
safeHandlerCall_NoDomainBranch(outcome, requestId, sessionId) ==
    IF outcome.kind = "return"
    THEN formatResponse(outcome.value, requestId, sessionId, JsUndefined)
    ELSE LET err == outcome.value
             message == IF err.t \in {"Error", "DomainError"} THEN err.message
                        ELSE JsString(err)
         IN [status |-> 500,
             body |-> domainError(requestId, "INTERNAL_ERROR", message, JsUndefined)]

\* What safeHandlerCall returns once the awaited handler has settled with
\* `outcome`: a returned OperationResult or a thrown value.
safeHandlerCall(outcome, requestId, sessionId) ==
    IF outcome.kind = "return"
    THEN formatResponse(outcome.value, requestId, sessionId, JsUndefined)
    ELSE LET err == outcome.value IN
         IF err.t = "DomainError"
         THEN [status |-> 200,
               body |-> domainError(requestId, err.code, err.message, err.cause)]
         ELSE LET message == IF err.t = "Error" THEN err.message ELSE JsString(err)
              IN [status |-> 500,
                  body |-> domainError(requestId, "INTERNAL_ERROR", message,
                                       JsUndefined)]

-----------------------------------------------------------------------------
(* The inputs *)

RequestIds == {"req-1", "req-2"}
SessionIds == {JsUndefined, JsStr("sess-1")}
OpNames == {"v1:test", "v1:old.op"}

\* Values a handler may put in `result` (type unknown).
ResultValues ==
    {JsObj([data |-> JsNum(1)]), JsNum(0), JsStr(""), JsBool(FALSE), JsNull}

Locations == {[uri |-> "https://cdn.example.com/file.pdf"]}

\* The OperationResult values (types.ts).
OperationResults ==
    {[state |-> s] @@ r @@ l @@ a @@ e :
        s \in {"complete", "accepted"},
        r \in Opt("result", ResultValues),
        l \in Opt("location", Locations),
        a \in Opt("retryAfterMs", {0, 5000}),
        e \in Opt("expiresAt", {1700})}

Metas == {JsUndefined, JsObj([traceId |-> JsStr("t-1")])}

\* The values a handler may throw.
ThrownValues ==
    {DomainError("ITEM_NOT_FOUND", "Not found", JsUndefined),
     DomainError("FAIL", "oops", JsObj([detail |-> JsStr("x")])),
     [t |-> "Error", message |-> "kaboom"],
     [t |-> "Error", message |-> ""],
     JsStr("string error"), JsNum(42), JsNull, JsUndefined, JsBool(FALSE),
     JsObj([code |-> JsStr("E")])}

HandlerOutcomes ==
    {[kind |-> "return", value |-> r] : r \in OperationResults}
    \cup {[kind |-> "throw", value |-> e] : e \in ThrownValues}

HandlerArgLists == {<<>>, <<JsStr("x"), JsStr("y")>>}

SunsetStrings ==
    {"", "not-a-date", "1970-01-01", "1970-01-01T00:00:00.002Z",
     "1970-01-01T00:00:00.003Z"}

\* The OperationModule values (types.ts): schemas and handler by name.
OperationModules ==
    {[args |-> "testArgs", result |-> "testResult", handler |-> "testHandler"]
     @@ s @@ r :
        s \in Opt("sunset", SunsetStrings),
        r \in Opt("replacement", {"v2:test.op"})}

ArgsSchemaNames == {"testArgs", "greetingArgs", "orderArgs", "emptyArgs"}

\* The modules validateArgs is called with: one per argument schema.
ArgsModules ==
    {[args |-> n, result |-> "testResult", handler |-> "testHandler"] :
        n \in ArgsSchemaNames}

\* The args values of a request (type unknown).
ArgsValues ==
    {JsObj([name |-> JsStr("Alice")]),
     JsObj([name |-> JsStr("Bob"), age |-> JsNum(30)]),
     JsObj([name |-> JsStr("Eve"), extra |-> JsNum(1)]),
     JsObj(EmptyObj),
     JsObj([name |-> JsNum(123)]),
     JsObj([name |-> JsNum(42), age |-> JsStr("x")]),
     JsObj([address |-> JsObj([city |-> JsStr("Oslo")]),
            tags |-> JsArr(<<JsStr("a")>>)]),
     JsObj([address |-> JsObj(EmptyObj),
            tags |-> JsArr(<<JsStr("a"), JsNum(1)>>)]),
     JsStr("not an object"), JsNull, JsUndefined}

Uuid1 == "550e8400-e29b-41d4-a716-446655440000"
Uuid2 == "660e8400-e29b-41d4-a716-446655440000"

RawCtxValues ==
    {JsObj([requestId |-> JsStr(Uuid1)]),
     JsObj([requestId |-> JsStr(Uuid1), sessionId |-> JsStr(Uuid2),
            timeoutMs |-> JsNum(5000)]),
     JsObj([requestId |-> JsStr("bad")]),
     JsObj(EmptyObj),
     JsObj([requestId |-> JsStr(Uuid1), timeoutMs |-> JsNum(0 - 100)]),
     JsObj([requestId |-> JsStr(Uuid1), timeoutMs |-> JsHalf(2)]),
     JsObj([requestId |-> JsStr(Uuid1), parentId |-> JsStr("not-a-uuid")])}

RawExtras ==
    {EmptyObj,
     [auth |-> JsObj([iss |-> JsStr("auth.example.com"), sub |-> JsStr("user:42"),
                      credentialType |-> JsStr("bearer")])],
     [auth |-> JsObj([sub |-> JsStr("user:1"),
                      credentialType |-> JsStr("bearer")])],
     [media |-> JsArr(<<JsObj([name |-> JsStr("photo.jpg"),
                               mimeType |-> JsStr("image/jpeg")])>>)],
     [media |-> JsArr(<<JsObj([name |-> JsStr("photo.jpg"),
                               mimeType |-> JsStr("image/jpeg")]),
                        JsObj([name |-> JsStr("b.bin")])>>)]}

\* The raw request bodies (type unknown).
RawBodies ==
    {JsObj(o @@ a @@ c @@ x) :
        o \in Opt("op", {JsStr("v1:test.op"), JsStr(""), JsNum(42)}),
        a \in Opt("args", {JsObj(EmptyObj), JsObj([x |-> JsNum(1)]),
                           JsStr("bad"), JsNull, JsArr(<<>>)}),
        c \in Opt("ctx", RawCtxValues),
        x \in RawExtras}
    \cup {JsStr("not an object"), JsNull, JsUndefined, JsNum(7)}

-----------------------------------------------------------------------------
(* Strings: the string and regular-expression primitives the registry       *)
(* builder uses.  Positions count from 1; Len(s) + 1 is the end of s.       *)

\* The character of s at position i, or "" past the end.
Ch(s, i) == IF i >= 1 /\ i <= Len(s) THEN SubSeq(s, i, i) ELSE ""

\* Does sub occur in s at position i?
OccursAt(s, i, sub) ==
    /\ i >= 1
    /\ i + Len(sub) - 1 <= Len(s)
    /\ SubSeq(s, i, i + Len(sub) - 1) = sub

\* The least member of a non-empty set of positions.
Least(P) == CHOOSE k \in P : \A j \in P : k <= j

\* The greatest member of a non-empty set of positions.
Greatest(P) == CHOOSE k \in P : \A j \in P : k >= j

\* The first position at or after i where sub occurs in s, or 0.
IndexOfFrom(s, sub, i) ==
    LET hits == {k \in i..(Len(s) - Len(sub) + 1) : OccursAt(s, k, sub)}
    IN IF hits = {} THEN 0 ELSE Least(hits)

\* String.prototype.includes: sub occurs somewhere in s.
Includes(s, sub) == IndexOfFrom(s, sub, 1) # 0

\* The character classes \s, \w and the line terminators.
WhiteSpace == {" ", "\t", "\n", "\r", "\f"}

LineTerminators == {"\n", "\r"}

WordChars ==
    {"a", "b", "c", "d", "e", "f", "g", "h", "i", "j", "k", "l", "m",
     "n", "o", "p", "q", "r", "s", "t", "u", "v", "w", "x", "y", "z",
     "A", "B", "C", "D", "E", "F", "G", "H", "I", "J", "K", "L", "M",
     "N", "O", "P", "Q", "R", "S", "T", "U", "V", "W", "X", "Y", "Z",
     "0", "1", "2", "3", "4", "5", "6", "7", "8", "9", "_"}

\* The position after the longest run of characters of class starting at i.
RunEnd(s, i, class) ==
    IF i > Len(s) THEN i
    ELSE CHOOSE k \in i..(Len(s) + 1) :
            /\ \A j \in i..(k - 1) : Ch(s, j) \in class
            /\ Ch(s, k) \notin class

\* The position where the longest run of characters of class ending at i starts.
RunStart(s, i, class) ==
    IF i < 1 THEN i + 1
    ELSE CHOOSE k \in 1..(i + 1) :
            /\ Ch(s, k - 1) \notin class
            /\ \A j \in k..i : Ch(s, j) \in class

\* String.prototype.trim.
Trim(s) ==
    LET a == RunEnd(s, 1, WhiteSpace)
        b == RunStart(s, Len(s), WhiteSpace)
    IN IF a > Len(s) THEN "" ELSE SubSeq(s, a, b - 1)

\* The first position at or after i holding a character of class, or 0.
FirstIn(s, i, class) ==
    LET hits == {k \in i..Len(s) : Ch(s, k) \in class}
    IN IF hits = {} THEN 0 ELSE Least(hits)

\* The last position in i..j-1 holding a character of class, or 0.
LastIn(s, i, j, class) ==
    LET hits == {k \in i..(j - 1) : Ch(s, k) \in class}
    IN IF hits = {} THEN 0 ELSE Greatest(hits)

RECURSIVE SplitWhiteSpace(_)
\* s.split(/\s+/): the pieces between the runs of white space; a leading or
\* trailing run leaves an empty piece.
SplitWhiteSpace(s) ==
    LET w == FirstIn(s, 1, WhiteSpace) IN
    IF w = 0 THEN <<s>>
    ELSE <<SubSeq(s, 1, w - 1)>>
         \o SplitWhiteSpace(SubSeq(s, RunEnd(s, w, WhiteSpace), Len(s)))

\* Numbers that may be NaN.
JsNaN == [t |-> "number", nan |-> TRUE]

DigitValue(c) ==
    CASE c = "0" -> 0 [] c = "1" -> 1 [] c = "2" -> 2 [] c = "3" -> 3
      [] c = "4" -> 4 [] c = "5" -> 5 [] c = "6" -> 6 [] c = "7" -> 7
      [] c = "8" -> 8 [] c = "9" -> 9

Digits == {"0", "1", "2", "3", "4", "5", "6", "7", "8", "9"}

RECURSIVE DigitsValue(_, _, _, _)
\* The value of the decimal digits of s in i..j-1, after the value acc.
DigitsValue(s, i, j, acc) ==
    IF i >= j THEN acc
    ELSE DigitsValue(s, i + 1, j, acc * 10 + DigitValue(Ch(s, i)))

\* parseInt(s, 10): leading white space, an optional sign and the longest run
\* of decimal digits; NaN when there is no digit.
ParseInt(s) ==
    LET a == RunEnd(s, 1, WhiteSpace)
        signed == Ch(s, a) \in {"+", "-"}
        d == IF signed THEN a + 1 ELSE a
        e == RunEnd(s, d, Digits)
    IN IF e = d THEN JsNaN
       ELSE IF Ch(s, a) = "-" THEN JsNum(0 - DigitsValue(s, d, e, 0))
       ELSE JsNum(DigitsValue(s, d, e, 0))

\* Number.prototype.toString of an integer or NaN.
NumberToString(v) == IF Has(v, "nan") THEN "NaN" ELSE ToString(v.n)

\* The last position at or before i where the character c occurs in s, or 0.
LastIndexOf(s, c, i) == LastIn(s, 1, i + 1, {c})

\* A variant that takes every file for a TypeScript source.
ExtName_AlwaysTs(f) == ".ts"

\* path.extname of a file name without directories: from the last "." to the
\* end; "" when there is no "." or the only one starts the name.
ExtName(f) ==
    LET d == LastIndexOf(f, ".", Len(f))
    IN IF d <= 1 THEN "" ELSE SubSeq(f, d, Len(f))

-----------------------------------------------------------------------------
(* jsdoc.ts: parseJSDoc *)

NoMatch == [matched |-> FALSE]

\* sourceText.match(/\/\*\*[\s\S]*?\*\//): the text from the first "/**" to
\* the nearest "*/" that starts after it.
DocBlock(sourceText) ==
    LET i == IndexOfFrom(sourceText, "/**", 1)
        j == IF i = 0 THEN 0 ELSE IndexOfFrom(sourceText, "*/", i + 3)
    IN IF j = 0 THEN NoMatch
       ELSE [matched |-> TRUE, block |-> SubSeq(sourceText, i, j + 1)]

\* (?:\s*\*\/|\s*$) tried at position e: the position the match ends at, or 0.
TagEndAt(block, e) ==
    LET w == RunEnd(block, e, WhiteSpace)
        lt == LastIn(block, e, w, LineTerminators)
    IN IF OccursAt(block, w, "*/") THEN w + 2
       ELSE IF w > Len(block) THEN w
       ELSE lt

\* The lazy (.*?) of tagPattern, from position v on: the value ends at the
\* first position that (?:\s*\*\/|\s*$) matches at.  The result gives that
\* position and the position the whole match ends at.
ValueEnd(block, v) ==
    LET e == CHOOSE k \in v..(Len(block) + 1) :
                /\ TagEndAt(block, k) # 0
                /\ \A j \in v..(k - 1) : TagEndAt(block, j) = 0
    IN [value |-> e, match |-> TagEndAt(block, e)]

\* tagPattern = /@(\w+)\s+(.*?)(?:\s*\*\/|\s*$)/gm tried at the "@" at
\* position at.
TagMatchAt(block, at) ==
    LET n == RunEnd(block, at + 1, WordChars)
        v == RunEnd(block, n, WhiteSpace)
    IN IF n = at + 1 \/ v = n THEN NoMatch
       ELSE LET e == ValueEnd(block, v)
            IN [matched |-> TRUE,
                tagName |-> SubSeq(block, at + 1, n - 1),
                raw |-> SubSeq(block, v, e.value - 1),
                lastIndex |-> e.match]

\* raw.replace(/\s*\*?\s*$/, "").trim()
TagValue(raw) ==
    LET b == RunStart(raw, Len(raw), WhiteSpace)
        a == IF Ch(raw, b - 1) = "*"
             THEN RunStart(raw, b - 2, WhiteSpace) ELSE b
    IN Trim(SubSeq(raw, 1, a - 1))

\* The names `in` finds on every object: the members of Object.prototype.
ObjectPrototypeFunctions ==
    {"constructor", "hasOwnProperty", "isPrototypeOf", "propertyIsEnumerable",
     "toLocaleString", "toString", "valueOf", "__defineGetter__",
     "__defineSetter__", "__lookupGetter__", "__lookupSetter__"}

\* String(Object.prototype[name])
InheritedString(name) ==
    "function " \o (IF name = "constructor" THEN "Object" ELSE name)
    \o "() { [native code] }"

\* The body of the while loop: one tag recorded in tags.
RecordTag(tags, tagName, tagValue) ==
    IF tagName \in DOMAIN tags
    THEN [tags EXCEPT ![tagName] = @ \o " " \o tagValue]
    ELSE IF tagName \in ObjectPrototypeFunctions
    THEN (tagName :> (InheritedString(tagName) \o " " \o tagValue)) @@ tags
    ELSE IF tagName = "__proto__" THEN tags
    ELSE (tagName :> tagValue) @@ tags

RECURSIVE ExecTags(_, _, _)
\* The loop over tagPattern.exec(block), from lastIndex on.
ExecTags(block, lastIndex, tags) ==
    LET at == IndexOfFrom(block, "@", lastIndex) IN
    IF at = 0 THEN tags
    ELSE LET mt == TagMatchAt(block, at) IN
         IF ~mt.matched THEN ExecTags(block, at + 1, tags)
         ELSE ExecTags(block, mt.lastIndex,
                       RecordTag(tags, mt.tagName, TagValue(mt.raw)))

\* A variant that scans the whole source text for tags.
parseJSDoc_WholeText(sourceText) == ExecTags(sourceText, 1, EmptyObj)

parseJSDoc(sourceText) ==
    LET jsdocMatch == DocBlock(sourceText)
    IN IF ~jsdocMatch.matched THEN EmptyObj
       ELSE ExecTags(jsdocMatch.block, 1, EmptyObj)

-----------------------------------------------------------------------------
(* registry.ts: the shared helpers of the two build paths.                  *)
(* A module is a function from its export names to the exports: the schemas *)
(* by name, the handler by name, sunset and replacement as strings.         *)

\* z.toJSONSchema(schema): the JSON Schema document of a declared schema, as
\* its JSON text.
toJSONSchema(schema) ==
    LET head == "{\"$schema\":\"https://json-schema.org/draft/2020-12/schema\","
                \o "\"type\":\"object\",\"properties\":{"
        tail == "\"additionalProperties\":false}"
    IN CASE schema = "greetingArgs" ->
                head \o "\"name\":{\"type\":\"string\"}},\"required\":[\"name\"]," \o tail
         [] schema = "greetingResult" ->
                head \o "\"message\":{\"type\":\"string\"}},\"required\":[\"message\"]," \o tail
         [] OTHER -> head \o "}," \o tail

\* What a throwing call leaves instead of a value.
Thrown(name) == [threw |-> name]

Threw(v) == Has(v, "threw")

\* An entry whose every default is a different value.
buildEntry_OtherDefaults(mod, tags) ==
    IF ~Has(mod, "args") \/ ~Has(mod, "result") THEN Thrown("TypeError")
    ELSE [op |-> tags["op"],
          argsSchema |-> toJSONSchema(mod.args),
          resultSchema |-> toJSONSchema(mod.result),
          sideEffecting |-> TRUE,
          idempotencyRequired |-> TRUE,
          executionModel |-> "async",
          maxSyncMs |-> JsNum(0),
          ttlSeconds |-> JsNum(60),
          authScopes |-> <<"*">>,
          cachingPolicy |-> "server",
          deprecated |-> TRUE]

buildEntry(mod, tags) ==
    IF ~Has(mod, "args") \/ ~Has(mod, "result") THEN Thrown("TypeError")
    ELSE
    LET flag(name) == IF Has(tags, "flags") THEN Includes(tags["flags"], name)
                      ELSE FALSE
        set(k) == Has(tags, k) /\ tags[k] # ""
    IN [op |-> tags["op"],
        argsSchema |-> toJSONSchema(mod.args),
        resultSchema |-> toJSONSchema(mod.result),
        sideEffecting |-> flag("sideEffecting"),
        idempotencyRequired |-> flag("idempotencyRequired"),
        executionModel |-> IF Has(tags, "execution") THEN tags["execution"]
                           ELSE "sync",
        maxSyncMs |-> IF set("timeout") THEN ParseInt(tags["timeout"])
                      ELSE JsNum(5000),
        ttlSeconds |-> IF set("ttl") THEN ParseInt(tags["ttl"]) ELSE JsNum(0),
        authScopes |-> IF set("security") THEN SplitWhiteSpace(tags["security"])
                       ELSE <<>>,
        cachingPolicy |-> IF Has(tags, "cache") THEN tags["cache"] ELSE "none"]
       @@ (IF flag("deprecated") THEN [deprecated |-> TRUE] ELSE EmptyObj)
       @@ (IF set("sunset") THEN [sunset |-> tags["sunset"]] ELSE EmptyObj)
       @@ (IF set("replacement") THEN [replacement |-> tags["replacement"]]
           ELSE EmptyObj)

buildOpModule(mod, tags) ==
    LET set(k) == Has(tags, k) /\ tags[k] # ""
    IN [k \in DOMAIN mod \cap {"args", "result", "handler"} |-> mod[k]]
       @@ (IF set("sunset") THEN [sunset |-> tags["sunset"]] ELSE EmptyObj)
       @@ (IF set("replacement") THEN [replacement |-> tags["replacement"]]
           ELSE EmptyObj)

\* The characters JSON.stringify escapes in a string, with their escapes.
JsonEscaped == {"\"", "\\", "\n", "\r", "\t", "\f"}

JsonEscape(c) ==
    CASE c = "\"" -> "\\\"" [] c = "\\" -> "\\\\" [] c = "\n" -> "\\n"
      [] c = "\r" -> "\\r" [] c = "\t" -> "\\t" [] c = "\f" -> "\\f"

RECURSIVE JsonChars(_)
JsonChars(s) ==
    LET i == FirstIn(s, 1, JsonEscaped)
    IN IF i = 0 THEN s
       ELSE SubSeq(s, 1, i - 1) \o JsonEscape(Ch(s, i))
            \o JsonChars(SubSeq(s, i + 1, Len(s)))

\* JSON.stringify of a string, a number (NaN gives null), a boolean and an
\* array of strings.
JsonString(s) == "\"" \o JsonChars(s) \o "\""

JsonNumber(v) == IF Has(v, "nan") THEN "null" ELSE ToString(v.n)

JsonBoolean(b) == IF b THEN "true" ELSE "false"

JsonStrings(strs) ==
    "[" \o JoinStrings([i \in DOMAIN strs |-> JsonString(strs[i])], ",") \o "]"

\* JSON.stringify of a RegistryEntry: its properties in insertion order.
JsonEntry(entry) ==
    "{\"op\":" \o JsonString(entry.op)
    \o ",\"argsSchema\":" \o entry.argsSchema
    \o ",\"resultSchema\":" \o entry.resultSchema
    \o ",\"sideEffecting\":" \o JsonBoolean(entry.sideEffecting)
    \o ",\"idempotencyRequired\":" \o JsonBoolean(entry.idempotencyRequired)
    \o ",\"executionModel\":" \o JsonString(entry.executionModel)
    \o ",\"maxSyncMs\":" \o JsonNumber(entry.maxSyncMs)
    \o ",\"ttlSeconds\":" \o JsonNumber(entry.ttlSeconds)
    \o ",\"authScopes\":" \o JsonStrings(entry.authScopes)
    \o ",\"cachingPolicy\":" \o JsonString(entry.cachingPolicy)
    \o (IF Has(entry, "deprecated")
        THEN ",\"deprecated\":" \o JsonBoolean(entry.deprecated) ELSE "")
    \o (IF Has(entry, "sunset")
        THEN ",\"sunset\":" \o JsonString(entry.sunset) ELSE "")
    \o (IF Has(entry, "replacement")
        THEN ",\"replacement\":" \o JsonString(entry.replacement) ELSE "")
    \o "}"

\* JSON.stringify(registry)
JsonRegistry(registry) ==
    "{\"callVersion\":" \o JsonString(registry.callVersion)
    \o ",\"operations\":["
    \o JoinStrings([i \in DOMAIN registry.operations |->
                        JsonEntry(registry.operations[i])], ",")
    \o "]}"

\* A digest seeded anew by every build of the process.
Sha256Hex_Seeded(text) ==
    (IF prior.pc = "idle" THEN "sha256:" ELSE "sha256+1:") \o text

\* The hex digest of SHA-256, as an injective function of the text hashed.
Sha256Hex(text) == "sha256:" \o text

\* A registry whose JSON counts the builds of the process: every build after
\* the first is marked.
finalizeRegistry_Counted(entries, moduleMap, callVersion) ==
    LET registry == [callVersion |-> callVersion, operations |-> entries]
        json == JsonRegistry(registry)
                \o (IF prior.pc = "idle" THEN "" ELSE "\n")
    IN [registry |-> registry, modules |-> moduleMap, json |-> json,
        etag |-> "\"" \o Sha256Hex(json) \o "\""]

finalizeRegistry(entries, moduleMap, callVersion) ==
    LET registry == [callVersion |-> callVersion, operations |-> entries]
        json == JsonRegistry(registry)
    IN [registry |-> registry, modules |-> moduleMap, json |-> json,
        etag |-> "\"" \o Sha256Hex(json) \o "\""]

\* options.callVersion ?? process.env.CALL_VERSION ?? "2026-02-10"
CallVersionOf(options, env) ==
    IF Has(options, "callVersion") THEN options.callVersion
    ELSE IF Has(env, "CALL_VERSION") THEN env.CALL_VERSION
    ELSE "2026-02-10"

\* A map that takes a key only while it is empty.
MapSet_OnlyFirst(map, k, v) == IF DOMAIN map = {} THEN (k :> v) ELSE map

\* A map in which the first value set under a key stays.
MapSet_FirstWins(map, k, v) == IF k \in DOMAIN map THEN map ELSE (k :> v) @@ map

\* Map.prototype.set
MapSet(map, k, v) == (k :> v) @@ map

\* Tags in which the module's own sunset and replacement come first.
MetaTags_ModuleFirst(mod, meta) ==
    [k \in DOMAIN meta \cap {"op", "execution", "security", "cache", "flags"}
        |-> meta[k]]
    @@ [k \in DOMAIN meta \cap {"timeout", "ttl"} |-> NumberToString(meta[k])]
    @@ [k \in {"sunset", "replacement"} \cap (DOMAIN meta \cup DOMAIN mod)
        |-> IF Has(mod, k) THEN mod[k] ELSE meta[k]]

\* The tags buildRegistryFromModules derives from an entry's metadata.
MetaTags(mod, meta) ==
    [k \in DOMAIN meta \cap {"op", "execution", "security", "cache", "flags"}
        |-> meta[k]]
    @@ [k \in DOMAIN meta \cap {"timeout", "ttl"} |-> NumberToString(meta[k])]
    @@ [k \in {"sunset", "replacement"} \cap (DOMAIN meta \cup DOMAIN mod)
        |-> IF Has(meta, k) THEN meta[k] ELSE mod[k]]

RECURSIVE FromModules(_, _, _)
\* The loop of buildRegistryFromModules over the entries not yet visited.
FromModules(moduleEntries, entries, moduleMap) ==
    IF moduleEntries = <<>> THEN [entries |-> entries, modules |-> moduleMap]
    ELSE LET mod == Head(moduleEntries).module
             meta == Head(moduleEntries).meta
             tags == MetaTags(mod, meta)
         IN FromModules(Tail(moduleEntries),
                        Append(entries, buildEntry(mod, tags)),
                        MapSet(moduleMap, meta.op, buildOpModule(mod, tags)))

buildRegistryFromModules(moduleEntries, options, env) ==
    LET built == FromModules(moduleEntries, <<>>, EmptyObj)
    IN finalizeRegistry(built.entries, built.modules,
                        CallVersionOf(options, env))

-----------------------------------------------------------------------------
(* registry.ts: the inputs of a build and buildRegistry, which suspends at  *)
(* each import.                                                             *)

\* The files of the operations directory.
FileNames ==
    {"greeting.ts", "farewell.ts", "no-op-tag.ts", "minimal.ts", "broken.ts",
     "loose.ts", "blank-op.ts", "no-handler.ts", "notes.md"}

\* readFile(join(opsDir, file), "utf-8")
FileText(file) ==
    CASE file = "greeting.ts" ->
            "import { z } from \"zod/v4\";\n\n/**\n * Say hello to someone.\n *\n"
            \o " * @op v1:greeting.hello\n * @execution sync\n * @timeout 3000\n"
            \o " * @security greet:read\n * @cache none\n */\n\nexport const args"
      [] file = "farewell.ts" ->
            "import { z } from \"zod/v4\";\n\n/**\n"
            \o " * Say goodbye (deprecated, will be removed).\n *\n"
            \o " * @op v1:greeting.farewell\n * @execution sync\n * @timeout 2000\n"
            \o " * @security greet:read\n * @security greet:write\n"
            \o " * @flags sideEffecting deprecated\n * @cache none\n"
            \o " * @sunset 2025-01-01\n * @replacement v1:greeting.goodbye\n */\n"
      [] file = "no-op-tag.ts" ->
            "import { z } from \"zod/v4\";\n\n"
            \o "/** This is a helper file with no operation declaration. */\n"
      [] file = "minimal.ts" -> "/** @op v1:minimal.op */\nexport const args"
      [] file = "broken.ts" -> "/**\n * @op v1:broken.op\n */\nexport const result"
      [] file = "loose.ts" ->
            "/**\n * @op v1:greeting.farewell\n * @execution fast\n"
            \o " * @timeout soon\n"
            \o " * @ttl -5\n * @cache maybe\n */\nexport const args"
      [] file = "blank-op.ts" -> "/** @op */\nexport const args"
      [] file = "no-handler.ts" ->
            "/** @op v1:unhandled.op */\nexport const args"
      [] file = "notes.md" -> "/** @op v1:notes.op */\n"

\* The module import(join(opsDir, file)) resolves to.
FileModule(file) ==
    CASE file = "minimal.ts" ->
            [args |-> "emptyObject", result |-> "emptyObject",
             handler |-> "minimalHandler",
             sunset |-> "2025-01-01", replacement |-> "v2:minimal.op"]
      [] file = "broken.ts" ->
            [result |-> "emptyObject", handler |-> "brokenHandler"]
      [] file = "no-op-tag.ts" ->
            [args |-> "emptyObject", result |-> "emptyObject",
             handler |-> "helperHandler"]
      [] file = "no-handler.ts" ->
            [args |-> "emptyObject", result |-> "emptyObject"]
      [] OTHER ->
            [args |-> "greetingArgs", result |-> "greetingResult",
             handler |-> "greetingHandler"]

\* The tags parseJSDoc extracts from the text of each file.
ParsedFiles == [file \in FileNames |-> parseJSDoc(FileText(file))]

\* The sequences of at most n different members of S.
Listings(S, n) ==
    {l \in UNION {[1..k -> S] : k \in 0..n} :
        \A i, j \in DOMAIN l : l[i] = l[j] => i = j}

\* The sequences of at most n members of S.
SeqsUpTo(S, n) == UNION {[1..k -> S] : k \in 0..n}

greetingModule ==
    [args |-> "greetingArgs", result |-> "greetingResult",
     handler |-> "greetingHandler"]

farewellModule ==
    [args |-> "greetingArgs", result |-> "greetingResult",
     handler |-> "farewellHandler",
     sunset |-> "2025-01-01", replacement |-> "v2:greeting.farewell"]

\* Values of the flags metadata.
FlagsValues ==
    {"", "sideEffecting", "idempotencyRequired deprecated",
     "deprecated  sideEffecting", "undeprecated", "sideEffectingLater",
     "idempotencyRequired,deprecated"}

\* The module entries handed to buildRegistryFromModules.
ModuleEntries ==
    {[module |-> greetingModule, meta |-> [op |-> "v1:flagged.op", flags |-> f]] :
        f \in FlagsValues}
    \cup
    {[module |-> greetingModule,
      meta |-> [op |-> "v1:greeting.hello", execution |-> "sync",
                timeout |-> JsNum(3000), security |-> "greet:read",
                cache |-> "none"]],
     [module |-> farewellModule,
      meta |-> [op |-> "v1:greeting.farewell", execution |-> "sync",
                timeout |-> JsNum(2000),
                security |-> "greet:read greet:write",
                flags |-> "sideEffecting deprecated"]],
     [module |-> farewellModule,
      meta |-> [op |-> "v1:greeting.farewell", sunset |-> "2026-06-01",
                replacement |-> "v3:greeting.farewell"]],
     [module |-> greetingModule, meta |-> [op |-> "v1:minimal.op"]],
     [module |-> farewellModule, meta |-> [op |-> "v1:greeting.farewell"]],
     [module |-> farewellModule,
      meta |-> [op |-> "v1:greeting.farewell", sunset |-> ""]],
     [module |-> greetingModule,
      meta |-> [op |-> "v1:loose.op", timeout |-> JsNum(0),
                ttl |-> JsNum(-5)]]}

\* The options of a build and the environment it runs in.
BuildOptions == {EmptyObj, [callVersion |-> "2026-03-01"], [ext |-> ".md"]}

Environments == {EmptyObj, [CALL_VERSION |-> "2026-01-01"]}

NoBuild == [pc |-> "idle"]

\* Object identity.  An object the caller hands in is known by what it is;
\* an object a build creates is known by the build, the expression that
\* creates it and the turn of the loop.
InputRef(object) == [input |-> object]

NewRef(serial, kind, i) == [serial |-> serial, kind |-> kind, i |-> i]

\* The builds of a process are numbered.
BuildSerial == IF prior = NoBuild THEN 1 ELSE 2

\* A variant of buildOpModule that hands the module it was given back.
buildOpModuleRef_SameObject(modRef, serial, i) == modRef

\* buildOpModule: `const opModule = {...}` is a new object, and the sunset and
\* replacement are assigned to it.
buildOpModuleRef(modRef, serial, i) == NewRef(serial, "opModule", i)

\* The objects a build over the modules mods returns and the objects it
\* wrote to: the entries array, the modules map, the registry, and for each
\* module the descriptor buildEntry creates and the module buildOpModule
\* returns.
BuildRefs(mods, serial) ==
    LET stored == [i \in DOMAIN mods |->
                        buildOpModuleRef(InputRef(mods[i]), serial, i)]
        descriptors == [i \in DOMAIN mods |-> NewRef(serial, "entry", i)]
        operations == NewRef(serial, "entries", 0)
        map == NewRef(serial, "modules", 0)
    IN [operations |-> operations, descriptors |-> descriptors,
        modules |-> map, stored |-> stored,
        registry |-> NewRef(serial, "registry", 0),
        written |-> {operations, map}
                    \cup {stored[i] : i \in DOMAIN mods}
                    \cup {descriptors[i] : i \in DOMAIN mods}]

\* buildRegistry up to the loop: the listing filtered by extension.
BuildRegistryBegin(listing, options, env) ==
    /\ build.pc = "idle"
    /\ LET ext == IF Has(options, "ext") THEN options.ext ELSE ".ts"
       IN build' = [path |-> "scan", pc |-> "loop",
                    listing |-> listing, options |-> options, env |-> env,
                    files |-> SelectSeq(listing, LAMBDA f : ExtName(f) = ext),
                    i |-> 1, entries |-> <<>>, modules |-> EmptyObj,
                    read |-> <<>>, imported |-> <<>>]
    /\ UNCHANGED <<now, call, modules, reqs, prior>>

BuildRegistryStart ==
    \E listing \in Listings(FileNames, MaxSources),
       options \in BuildOptions, env \in Environments :
        BuildRegistryBegin(listing, options, env)

\* One file of the loop, up to `continue` or to the import it awaits.
BuildRegistryReadFile ==
    /\ build.pc = "loop"
    /\ build.i <= Len(build.files)
    /\ LET file == build.files[build.i]
           tags == ParsedFiles[file]
           read == Append(build.read, file)
       IN IF ~Has(tags, "op") \/ tags["op"] = ""
          THEN build' = [build EXCEPT !.i = @ + 1, !.read = read]
          ELSE build' = [build EXCEPT !.pc = "importing", !.read = read]
    /\ UNCHANGED <<now, call, modules, reqs, prior>>

\* The import resolves: the module is registered and its entry pushed, or
\* buildEntry throws and the build rejects.
BuildRegistryImported ==
    /\ build.pc = "importing"
    /\ LET file == build.files[build.i]
           tags == ParsedFiles[file]
           mod == FileModule(file)
           moduleMap == MapSet(build.modules, tags["op"], buildOpModule(mod, tags))
           entry == buildEntry(mod, tags)
           imported == Append(build.imported, file)
       IN IF Threw(entry)
          THEN build' = [build EXCEPT !.pc = "failed", !.imported = imported,
                                      !.modules = moduleMap]
          ELSE build' = [build EXCEPT !.pc = "loop", !.i = @ + 1,
                                      !.imported = imported,
                                      !.modules = moduleMap,
                                      !.entries = Append(@, entry)]
    /\ UNCHANGED <<now, call, modules, reqs, prior>>

\* The loop is over: finalizeRegistry gives the result.
BuildRegistryFinish ==
    /\ build.pc = "loop"
    /\ build.i > Len(build.files)
    /\ build' = [result |-> finalizeRegistry(build.entries, build.modules,
                                CallVersionOf(build.options, build.env)),
                 refs |-> BuildRefs([i \in DOMAIN build.imported |->
                                        FileModule(build.imported[i])],
                                    BuildSerial)]
                @@ [build EXCEPT !.pc = "done"]
    /\ UNCHANGED <<now, call, modules, reqs, prior>>

BuildFromModules(moduleEntries, options, env) ==
    /\ build.pc = "idle"
    /\ build' = [path |-> "modules", pc |-> "done",
                 moduleEntries |-> moduleEntries,
                 options |-> options, env |-> env,
                 result |-> buildRegistryFromModules(moduleEntries, options, env),
                 refs |-> BuildRefs([i \in DOMAIN moduleEntries |->
                                        moduleEntries[i].module],
                                    BuildSerial)]
    /\ UNCHANGED <<now, call, modules, reqs, prior>>

CallBuildRegistryFromModules ==
    \E moduleEntries \in SeqsUpTo(ModuleEntries, MaxSources),
       options \in {o \in BuildOptions : ~Has(o, "ext")},
       env \in Environments :
        BuildFromModules(moduleEntries, options, env)

\* The caller takes the result, or the rejection, of the build.
TakeBuild ==
    /\ build.pc \in {"done", "failed"}
    /\ build' = NoBuild
    /\ UNCHANGED <<now, call, modules, reqs, prior>>

\* The caller keeps the outcome of the first build.
KeepBuild ==
    /\ build.pc \in {"done", "failed"}
    /\ prior = NoBuild
    /\ prior' = build
    /\ build' = NoBuild
    /\ UNCHANGED <<now, call, modules, reqs>>

\* The sequence s in the opposite order.
Reverse(s) == [i \in DOMAIN s |-> s[Len(s) + 1 - i]]

\* The caller builds again with the options and environment of the build it
\* kept, from the same sources listed in the same or the opposite order.
BuildAgain ==
    /\ prior # NoBuild
    /\ \E reversed \in BOOLEAN :
        LET order(s) == IF reversed THEN Reverse(s) ELSE s
        IN IF prior.path = "scan"
           THEN BuildRegistryBegin(order(prior.listing), prior.options, prior.env)
           ELSE BuildFromModules(order(prior.moduleEntries), prior.options,
                                 prior.env)

\* The sources of the builds that are repeated: the files and module entries
\* that differ in what they declare, without those that differ only in the
\* values of their tags.
RepeatFileNames ==
    {"greeting.ts", "farewell.ts", "no-op-tag.ts", "minimal.ts", "broken.ts",
     "notes.md"}

RepeatModuleEntries ==
    {e \in ModuleEntries : e.meta.op \notin {"v1:flagged.op", "v1:loose.op"}}

\* The first of the two builds starts.
BuildFirst ==
    /\ prior = NoBuild
    /\ \/ \E listing \in Listings(RepeatFileNames, MaxSources),
             options \in BuildOptions, env \in Environments :
                BuildRegistryBegin(listing, options, env)
       \/ \E moduleEntries \in SeqsUpTo(RepeatModuleEntries, MaxSources),
             options \in {o \in BuildOptions : ~Has(o, "ext")},
             env \in Environments :
                BuildFromModules(moduleEntries, options, env)

NextRepeat ==
    \/ BuildFirst
    \/ BuildRegistryReadFile
    \/ BuildRegistryImported
    \/ BuildRegistryFinish
    \/ KeepBuild
    \/ BuildAgain
    \/ TakeBuild

NextBuild ==
    \/ BuildRegistryStart
    \/ BuildRegistryReadFile
    \/ BuildRegistryImported
    \/ BuildRegistryFinish
    \/ CallBuildRegistryFromModules
    \/ TakeBuild

-----------------------------------------------------------------------------
(* The dispatch pipeline: the stages composed in the order of the           *)
(* specification (section 4.3).  The stages up to the handler's invocation  *)
(* run without suspension; the awaited handler is the one suspension point. *)

Requests == 1..NumRequests

\* The module map of the dispatcher: one live operation, one with a sunset.
DispatchModules ==
    ("v1:test.op" :>
        [args |-> "testArgs", result |-> "testResult", handler |-> "testHandler"])
    @@ ("v1:old.op" :>
        [args |-> "testArgs", result |-> "testResult", handler |-> "testHandler",
         sunset |-> "1970-01-01T00:00:00.002Z", replacement |-> "v2:test.op"])

DispatchCtx == JsObj([requestId |-> JsStr(Uuid1), sessionId |-> JsStr(Uuid2)])

\* The raw bodies of the requests dispatched.
DispatchBodies ==
    {JsObj([op |-> JsStr("v1:test.op"), args |-> JsObj([name |-> JsStr("Alice")])]),
     JsObj([op |-> JsStr("v1:test.op")]),
     JsObj([op |-> JsStr("v1:old.op"), args |-> JsObj([name |-> JsStr("Bob")]),
            ctx |-> DispatchCtx]),
     JsObj([op |-> JsStr("v1:old.op"), args |-> JsObj([name |-> JsNum(123)])]),
     JsObj([op |-> JsStr("v1:missing"), args |-> JsObj(EmptyObj)]),
     JsObj([op |-> JsStr("")])}

\* The outcomes of the handlers dispatched to.
DispatchOutcomes ==
    {[kind |-> "return",
      value |-> [state |-> "complete", result |-> JsObj([greeting |-> JsStr("Hi")])]],
     [kind |-> "throw", value |-> DomainError("ITEM_NOT_FOUND", "Not found", JsUndefined)],
     [kind |-> "throw", value |-> [t |-> "Error", message |-> "kaboom"]]}

\* A variant that keeps the requestId in a variable the requests share: a
\* request without a ctx gets the id another request in flight brought.
RequestIdOf_LastSeen(envelope) ==
    IF Has(envelope, "ctx") THEN envelope.ctx.o.requestId.s
    ELSE IF \E r \in Requests :
                Has(reqs[r], "requestId") /\ reqs[r].requestId # GeneratedRequestId
    THEN Uuid1
    ELSE GeneratedRequestId

\* The ids of a response: those of the envelope's ctx, or a generated requestId.
RequestIdOf(envelope) ==
    IF Has(envelope, "ctx") THEN envelope.ctx.o.requestId.s ELSE GeneratedRequestId

SessionIdOf(envelope) ==
    IF Has(envelope, "ctx") /\ Has(envelope.ctx.o, "sessionId")
    THEN envelope.ctx.o.sessionId ELSE JsUndefined

\* The stages with argument validation ahead of the sunset check.
RunStages_ArgsBeforeSunset(rawBody, mods, clock) ==
    LET e == validateEnvelope(rawBody) IN
    IF ~e.ok
    THEN [pc |-> "done", ran |-> <<"envelope">>, response |-> e.error]
    ELSE
    LET op == e.envelope.op.s
        requestId == RequestIdOf(e.envelope)
        sessionId == SessionIdOf(e.envelope)
    IN
    IF op \notin DOMAIN mods
    THEN [pc |-> "done", ran |-> <<"envelope", "resolve">>, notFound |-> op]
    ELSE
    LET a == validateArgs(mods[op], e.envelope.args, requestId, sessionId) IN
    IF ~a.ok
    THEN [pc |-> "done", ran |-> <<"envelope", "resolve", "args">>,
          response |-> a.error]
    ELSE
    LET removed == checkSunset(mods[op], op, requestId, sessionId, clock) IN
    IF removed # JsUndefined
    THEN [pc |-> "done", ran |-> <<"envelope", "resolve", "args", "sunset">>,
          response |-> removed]
    ELSE [pc |-> "awaiting",
          ran |-> <<"envelope", "resolve", "args", "sunset", "handler">>,
          op |-> op, handlerArgs |-> <<a.data>>,
          requestId |-> requestId, sessionId |-> sessionId]

\* The stages run on rawBody at time clock, up to the first that fails or to
\* the handler's invocation.
RunStages(rawBody, mods, clock) ==
    LET e == validateEnvelope(rawBody) IN
    IF ~e.ok
    THEN [pc |-> "done", ran |-> <<"envelope">>, response |-> e.error]
    ELSE
    LET op == e.envelope.op.s
        requestId == RequestIdOf(e.envelope)
        sessionId == SessionIdOf(e.envelope)
    IN
    IF op \notin DOMAIN mods
    THEN [pc |-> "done", ran |-> <<"envelope", "resolve">>, notFound |-> op]
    ELSE
    LET removed == checkSunset(mods[op], op, requestId, sessionId, clock) IN
    IF removed # JsUndefined
    THEN [pc |-> "done", ran |-> <<"envelope", "resolve", "sunset">>,
          response |-> removed]
    ELSE
    LET a == validateArgs(mods[op], e.envelope.args, requestId, sessionId) IN
    IF ~a.ok
    THEN [pc |-> "done", ran |-> <<"envelope", "resolve", "sunset", "args">>,
          response |-> a.error]
    ELSE [pc |-> "awaiting",
          ran |-> <<"envelope", "resolve", "sunset", "args", "handler">>,
          op |-> op, handlerArgs |-> <<a.data>>,
          requestId |-> requestId, sessionId |-> sessionId]

\* A request arrives and runs through the stages.
Dispatch(r) ==
    /\ reqs[r].pc = "idle"
    /\ \E rawBody \in DispatchBodies :
        reqs' = [reqs EXCEPT ![r] =
                    [rawBody |-> rawBody, at |-> now]
                    @@ RunStages(rawBody, modules, now)]
    /\ UNCHANGED <<now, call, modules, build, prior>>

\* The handler of request r returns or throws; safeHandlerCall resolves.
HandlerDone(r) ==
    /\ reqs[r].pc = "awaiting"
    /\ \E outcome \in DispatchOutcomes :
        reqs' = [reqs EXCEPT ![r] =
                    [pc |-> "done", outcome |-> outcome,
                     response |-> safeHandlerCall(outcome, reqs[r].requestId,
                                                  reqs[r].sessionId)]
                    @@ reqs[r]]
    /\ UNCHANGED <<now, call, modules, build, prior>>

-----------------------------------------------------------------------------
(* The library as a state machine: one call at a time *)

Idle == [fn |-> "idle"]

Init ==
    /\ now = 0
    /\ call = Idle
    /\ modules = DispatchModules
    /\ reqs = [r \in Requests |-> [pc |-> "idle"]]
    /\ build = NoBuild
    /\ prior = NoBuild

\* Time passes.
Tick ==
    /\ now < MaxClock
    /\ now' = now + 1
    /\ UNCHANGED <<call, modules, reqs, build, prior>>

CallValidateEnvelope ==
    /\ call = Idle
    /\ \E rawBody \in RawBodies :
        call' = [fn |-> "validateEnvelope", rawBody |-> rawBody,
                 ret |-> validateEnvelope(rawBody)]
    /\ UNCHANGED <<now, modules, reqs, build, prior>>

CallValidateArgs ==
    /\ call = Idle
    /\ \E operation \in ArgsModules, args \in ArgsValues,
          requestId \in RequestIds, sessionId \in SessionIds :
        call' = [fn |-> "validateArgs", operation |-> operation, args |-> args,
                 requestId |-> requestId, sessionId |-> sessionId,
                 ret |-> validateArgs(operation, args, requestId, sessionId)]
    /\ UNCHANGED <<now, modules, reqs, build, prior>>

CallCheckSunset ==
    /\ call = Idle
    /\ \E operation \in OperationModules, opName \in OpNames,
          requestId \in RequestIds, sessionId \in SessionIds :
        call' = [fn |-> "checkSunset", operation |-> operation, opName |-> opName,
                 requestId |-> requestId, sessionId |-> sessionId, at |-> now,
                 ret |-> checkSunset(operation, opName, requestId, sessionId, now)]
    /\ UNCHANGED <<now, modules, reqs, build, prior>>

CallFormatResponse ==
    /\ call = Idle
    /\ \E opResult \in OperationResults, requestId \in RequestIds,
          sessionId \in SessionIds, meta \in Metas :
        call' = [fn |-> "formatResponse", opResult |-> opResult,
                 requestId |-> requestId, sessionId |-> sessionId, meta |-> meta,
                 ret |-> formatResponse(opResult, requestId, sessionId, meta)]
    /\ UNCHANGED <<now, modules, reqs, build, prior>>

\* A variant that invokes the handler once more when it threw a value that
\* is not a DomainError.
InvokedOnSettle_RetryOnThrow(invoked, handlerArgs, outcome) ==
    IF outcome.kind = "throw" /\ outcome.value.t # "DomainError"
    THEN Append(invoked, handlerArgs)
    ELSE invoked

\* The invocations of the handler once it has settled: the return path and
\* the catch block of safeHandlerCall make no further invocation.
InvokedOnSettle(invoked, handlerArgs, outcome) == invoked

\* safeHandlerCall invokes the handler with handlerArgs and awaits it.
CallSafeHandlerCall ==
    /\ call = Idle
    /\ \E handlerArgs \in HandlerArgLists, requestId \in RequestIds,
          sessionId \in SessionIds :
        call' = [fn |-> "safeHandlerCall", handlerArgs |-> handlerArgs,
                 requestId |-> requestId, sessionId |-> sessionId,
                 phase |-> "awaiting", invoked |-> <<handlerArgs>>]
    /\ UNCHANGED <<now, modules, reqs, build, prior>>

\* The awaited handler returns or throws; safeHandlerCall resolves.
HandlerSettles ==
    /\ call.fn = "safeHandlerCall"
    /\ call.phase = "awaiting"
    /\ \E outcome \in HandlerOutcomes :
        call' = [fn |-> "safeHandlerCall", handlerArgs |-> call.handlerArgs,
                 requestId |-> call.requestId, sessionId |-> call.sessionId,
                 phase |-> "returned",
                 invoked |-> InvokedOnSettle(call.invoked, call.handlerArgs,
                                             outcome),
                 outcome |-> outcome,
                 ret |-> safeHandlerCall(outcome, call.requestId, call.sessionId)]
    /\ UNCHANGED <<now, modules, reqs, build, prior>>

\* What a handler may do outside its declared type: return a value that is
\* no OperationResult, or throw an object that has no string form (one
\* without a prototype: String() of it throws a TypeError).
OtherBehaviours ==
    {[kind |-> "returnsOther", value |-> JsNull],
     [kind |-> "returnsOther", value |-> JsUndefined],
     [kind |-> "returnsOther", value |-> JsStr("oops")],
     [kind |-> "returnsOther", value |-> JsObj(EmptyObj)],
     [kind |-> "throwsOther", value |-> [t |-> "object", o |-> EmptyObj,
                                         prototype |-> "null"]]}

\* The TypeError of reading a property of null or undefined, and of
\* converting an object without toString and valueOf to a string.
TypeErrorOf(what) == [t |-> "Error", name |-> "TypeError", message |-> what]

\* safeHandlerCall once the handler has settled in one of these ways: the
\* DispatchResult it resolves to, or the error it rejects with.
\*   - null or undefined returned: formatResponse reads opResult.state and
\*     throws inside the try; the catch block answers 500.
\*   - another value returned: every property read gives undefined, so the
\*     response has no state and the status is 200.
\*   - the object thrown: it is neither a DomainError nor an Error, and
\*     String(err) throws inside the catch block.
safeHandlerCallOther(behaviour, requestId, sessionId) ==
    IF behaviour.kind = "returnsOther"
    THEN IF behaviour.value \in {JsNull, JsUndefined}
         THEN [resolved |->
                [status |-> 500,
                 body |-> domainError(requestId, "INTERNAL_ERROR",
                            TypeErrorOf("cannot read property state").message,
                            JsUndefined)]]
         ELSE [resolved |->
                [status |-> 200,
                 body |-> [requestId |-> requestId]
                          @@ OptStr("sessionId", sessionId)]]
    ELSE [rejected |-> TypeErrorOf("cannot convert object to primitive value")]

\* The awaited handler settles outside its declared type.
HandlerMisbehaves ==
    /\ call.fn = "safeHandlerCall"
    /\ call.phase = "awaiting"
    /\ \E behaviour \in OtherBehaviours :
        call' = [fn |-> "safeHandlerCall", handlerArgs |-> call.handlerArgs,
                 requestId |-> call.requestId, sessionId |-> call.sessionId,
                 phase |-> "settled", invoked |-> call.invoked,
                 behaviour |-> behaviour,
                 settled |-> safeHandlerCallOther(behaviour, call.requestId,
                                                  call.sessionId)]
    /\ UNCHANGED <<now, modules, reqs, build, prior>>

\* The caller takes what safeHandlerCall settled with.
TakeSettled ==
    /\ Has(call, "settled")
    /\ call' = Idle
    /\ UNCHANGED <<now, modules, reqs, build, prior>>

\* The caller takes the returned value; the library is idle again.
Returned == Has(call, "ret")

TakeResult ==
    /\ Returned
    /\ call' = Idle
    /\ UNCHANGED <<now, modules, reqs, build, prior>>

Next ==
    \/ Tick
    \/ CallValidateEnvelope
    \/ CallValidateArgs
    \/ CallCheckSunset
    \/ CallFormatResponse
    \/ CallSafeHandlerCall
    \/ HandlerSettles
    \/ HandlerMisbehaves
    \/ TakeSettled
    \/ TakeResult

Spec == Init /\ [][Next]_vars

NextDispatch ==
    \/ Tick
    \/ \E r \in Requests : Dispatch(r)
    \/ \E r \in Requests : HandlerDone(r)

SpecDispatch == Init /\ [][NextDispatch]_vars

SpecBuild == Init /\ [][NextBuild]_vars

SpecRepeat == Init /\ [][NextRepeat]_vars

-----------------------------------------------------------------------------
(* jsdoc.ts as a state machine: parseJSDoc called on source texts           *)

\* The greatest number of lines in the first documentation block of a text.
MaxLines == 2

\* The tag lines and the other lines of a documentation block.
TagLines ==
    {[name |-> "op", value |-> "v1:catalog.list"],
     [name |-> "security", value |-> "items:browse"],
     [name |-> "security", value |-> "items:read  "],
     [name |-> "security", value |-> "items:*"],
     [name |-> "constructor", value |-> "Catalog"]}

ProseLines == {[prose |-> "List the catalog."], [prose |-> ""]}

LineText(line) ==
    IF Has(line, "name") THEN "@" \o line.name \o " " \o line.value
    ELSE line.prose

\* A documentation block: its lines one per text line, or its only line
\* between the delimiters.
DocBlocks ==
    {[style |-> "lines", lines |-> l] :
        l \in SeqsUpTo(TagLines \cup ProseLines, MaxLines)}
    \cup {[style |-> "inline", lines |-> l] :
            l \in SeqsUpTo(TagLines \cup ProseLines, 1)}

BlockText(b) ==
    IF b.style = "inline"
    THEN "/** " \o JoinStrings([i \in DOMAIN b.lines |-> LineText(b.lines[i])], "")
         \o " */"
    ELSE "/**\n"
         \o JoinStrings([i \in DOMAIN b.lines |->
                            " * " \o LineText(b.lines[i]) \o "\n"], "")
         \o " */"

\* The blocks that follow the first one.
LaterBlocks ==
    {[style |-> "inline",
      lines |-> <<[name |-> "op", value |-> "v1:later.op"]>>],
     [style |-> "lines",
      lines |-> <<[name |-> "security", value |-> "late:scope"],
                  [name |-> "flags", value |-> "deprecated"]>>]}

\* The text before the first block: nothing, code, or comments that are not
\* documentation blocks.
Leads ==
    {"", "import { z } from \"zod/v4\";\n\n",
     "// @op v1:line.comment\n/* @op v1:plain.comment */\n"}

\* The source texts: a lead, then the documentation blocks, code after each.
SourceDocs ==
    {[lead |-> lead, blocks |-> <<>>] : lead \in Leads}
    \cup {[lead |-> lead, blocks |-> <<first>> \o later] :
            lead \in Leads, first \in DocBlocks,
            later \in SeqsUpTo(LaterBlocks, 1)}

SourceText(doc) ==
    doc.lead
    \o JoinStrings([i \in DOMAIN doc.blocks |->
                        BlockText(doc.blocks[i]) \o "\nexport const args = 1;\n"],
                   "")

\* parseJSDoc(sourceText)
CallParseJSDoc ==
    /\ call = Idle
    /\ \E doc \in SourceDocs :
        call' = [fn |-> "parseJSDoc", doc |-> doc,
                 sourceText |-> SourceText(doc),
                 ret |-> parseJSDoc(SourceText(doc))]
    /\ UNCHANGED <<now, modules, reqs, build, prior>>

NextParse ==
    \/ CallParseJSDoc
    \/ TakeResult

SpecParse == Init /\ [][NextParse]_vars

-----------------------------------------------------------------------------
(* Properties of the stage functions *)

\* A call of fn has returned.
ReturnedFrom(fn) == call.fn = fn /\ Returned

\* C1 (as claimed): formatResponse gives 202 for state "accepted", 303 for
\* state "complete" with a location and no result, 200 in every other case
\* (complete with both result and location included), and the body of a 303
\* response carries no result.
C1_StatusMapping ==
    ReturnedFrom("formatResponse") =>
        LET r == call.opResult
            expected ==
                IF r.state = "accepted" THEN 202
                ELSE IF Has(r, "location") /\ ~Has(r, "result") THEN 303
                ELSE 200
        IN /\ call.ret.status = expected
           /\ (call.ret.status = 303 => ~Has(call.ret.body, "result"))

\* C2: checkSunset returns 410 OP_REMOVED, with cause {removedOp, sunset,
\* replacement-or-absent}, exactly when the module declares a sunset and the
\* time of the call is strictly after the sunset instant; otherwise undefined.
C2_SunsetExactlyWhenPast ==
    ReturnedFrom("checkSunset") =>
        LET op == call.operation
            past == /\ Has(op, "sunset")
                    /\ ~DateGetTime(op.sunset).nan
                    /\ call.at > DateGetTime(op.sunset).ms
        IN /\ past <=> (call.ret # JsUndefined)
           /\ past =>
                /\ call.ret.status = 410
                /\ call.ret.body.error.code = "OP_REMOVED"
                /\ call.ret.body.error.cause.removedOp = call.opName
                /\ call.ret.body.error.cause.sunset = op.sunset
                /\ Has(call.ret.body.error.cause, "replacement")
                        <=> Has(op, "replacement")
                /\ Has(op, "replacement") =>
                        call.ret.body.error.cause.replacement = op.replacement

\* A module with a replacement is found removed one millisecond after its
\* sunset instant.
C2_Witness ==
    /\ ReturnedFrom("checkSunset")
    /\ Has(call.operation, "sunset")
    /\ call.operation.sunset = "1970-01-01T00:00:00.002Z"
    /\ call.at = 3
    /\ Has(call.operation, "replacement")
    /\ call.ret # JsUndefined

C5_NormalReturn ==
    (ReturnedFrom("safeHandlerCall") /\ call.outcome.kind = "return") =>
        /\ call.ret.status \in {200, 202, 303}
        /\ call.ret.body.state = call.outcome.value.state
        /\ call.ret.body.state # "error"
        /\ ~Has(call.ret.body, "error")

\* The handler returned state "accepted" and safeHandlerCall answered 202.
C5_Witness ==
    /\ ReturnedFrom("safeHandlerCall")
    /\ call.outcome.kind = "return"
    /\ call.outcome.value.state = "accepted"
    /\ call.ret.status = 202

\* The dot-joined text of the issue paths the schemas of the model produce.
DotJoined(path) ==
    CASE path = <<>> -> ""
      [] path = <<Key("name")>> -> "name"
      [] path = <<Key("age")>> -> "age"
      [] path = <<Key("address")>> -> "address"
      [] path = <<Key("tags")>> -> "tags"
      [] path = <<Key("address"), Key("city")>> -> "address.city"
      [] path = <<Key("tags"), Index(0)>> -> "tags.0"
      [] path = <<Key("tags"), Index(1)>> -> "tags.1"
      [] OTHER -> "(a path the schemas do not produce)"

\* C6: validateArgs answers args that fail the module's schema with ok=false,
\* status 400, state "error", code SCHEMA_VALIDATION_FAILED and one
\* {path, message} per violation (at least one, the path dot-joined and empty
\* for a root-level failure), and any other args with ok=true and the parsed
\* data.
C6_ArgsValidation ==
    ReturnedFrom("validateArgs") =>
        LET parsed == ZodParse(ArgsSchema(call.operation.args), call.args)
            ret == call.ret
        IN IF parsed.issues # <<>>
           THEN /\ ret.ok = FALSE
                /\ ret.error.status = 400
                /\ ret.error.body.state = "error"
                /\ ret.error.body.error.code = "SCHEMA_VALIDATION_FAILED"
                /\ LET issues == ret.error.body.error.cause.issues
                   IN /\ Len(issues) >= 1
                      /\ Len(issues) = Len(parsed.issues)
                      /\ \A i \in 1..Len(issues) :
                            /\ DOMAIN issues[i] = {"path", "message"}
                            /\ issues[i].path = DotJoined(parsed.issues[i].path)
                            /\ issues[i].message = parsed.issues[i].message
           ELSE /\ ret.ok = TRUE
                /\ ret.data = parsed.data

\* Args with two violations, one of them nested, were rejected.
C6_Witness ==
    /\ ReturnedFrom("validateArgs")
    /\ call.ret.ok = FALSE
    /\ Len(call.ret.error.body.error.cause.issues) = 2
    /\ call.ret.error.body.error.cause.issues[1].path = "address.city"
    /\ call.ret.error.body.error.cause.issues[2].path = "tags.1"

\* The Request Envelope contract: op a non-empty string, args a mapping when
\* given, ctx, auth and media of their declared shapes when given.
IsString(v) == v.t = "string"
OptionalString(o, k) == Has(o, k) => IsString(o[k])
OptionalUuid(o, k) == Has(o, k) => (IsString(o[k]) /\ IsUuid(o[k].s))

CtxConforms(c) ==
    /\ c.t = "object"
    /\ Has(c.o, "requestId") /\ IsString(c.o.requestId) /\ IsUuid(c.o.requestId.s)
    /\ OptionalUuid(c.o, "sessionId")
    /\ OptionalUuid(c.o, "parentId")
    /\ OptionalString(c.o, "idempotencyKey")
    /\ OptionalString(c.o, "locale")
    /\ OptionalString(c.o, "traceparent")
    /\ Has(c.o, "timeoutMs") =>
            /\ c.o.timeoutMs.t = "number"
            /\ ~Has(c.o.timeoutMs, "half")
            /\ c.o.timeoutMs.n > 0

AuthConforms(a) ==
    /\ a.t = "object"
    /\ \A k \in {"iss", "sub", "credentialType"} : Has(a.o, k) /\ IsString(a.o[k])
    /\ OptionalString(a.o, "credential")

MediaConforms(m) ==
    /\ m.t = "array"
    /\ \A i \in 1..Len(m.a) :
        /\ m.a[i].t = "object"
        /\ \A k \in {"name", "mimeType"} : Has(m.a[i].o, k) /\ IsString(m.a[i].o[k])
        /\ OptionalString(m.a[i].o, "ref")
        /\ OptionalString(m.a[i].o, "part")

EnvelopeConforms(raw) ==
    /\ raw.t = "object"
    /\ Has(raw.o, "op") /\ IsString(raw.o.op) /\ raw.o.op.s # ""
    /\ Has(raw.o, "args") => raw.o.args.t = "object"
    /\ Has(raw.o, "ctx") => CtxConforms(raw.o.ctx)
    /\ Has(raw.o, "auth") => AuthConforms(raw.o.auth)
    /\ Has(raw.o, "media") => MediaConforms(raw.o.media)

\* C7: validateEnvelope answers every raw body that violates the Request
\* Envelope contract (a missing or empty op included) with ok=false, status 400
\* and code INVALID_ENVELOPE, and answers ok=true only with an envelope whose
\* op is a non-empty string and whose args is a mapping, the empty one when
\* args was omitted.
C7_EnvelopeValidation ==
    ReturnedFrom("validateEnvelope") =>
        LET raw == call.rawBody
            ret == call.ret
        IN /\ ~EnvelopeConforms(raw) => ret.ok = FALSE
           /\ ret.ok = FALSE =>
                /\ ret.error.status = 400
                /\ ret.error.body.state = "error"
                /\ ret.error.body.error.code = "INVALID_ENVELOPE"
           /\ ret.ok = TRUE =>
                /\ IsString(ret.envelope.op) /\ ret.envelope.op.s # ""
                /\ ret.envelope.args.t = "object"
                /\ ~Has(raw.o, "args") => ret.envelope.args = JsObj(EmptyObj)

\* A body whose op is the empty string, and is otherwise well formed, was
\* rejected.
C7_Witness ==
    /\ ReturnedFrom("validateEnvelope")
    /\ call.rawBody.t = "object"
    /\ Has(call.rawBody.o, "op")
    /\ call.rawBody.o.op = JsStr("")
    /\ call.ret.ok = FALSE
    /\ call.ret.error.body.error.message = "Missing required field: op"

\* The call has produced a response (a DispatchResult).
HasResponse ==
    /\ Returned
    /\ CASE call.fn \in {"validateEnvelope", "validateArgs"} -> call.ret.ok = FALSE
         [] call.fn = "checkSunset" -> call.ret # JsUndefined
         [] OTHER -> TRUE

TheResponse ==
    IF call.fn \in {"validateEnvelope", "validateArgs"} THEN call.ret.error
    ELSE call.ret

\* C8: in every response of the five stage functions the body has an error
\* object {code, message, cause?} exactly when its state is "error", a body
\* in state "error" has no result, and status 400, 410 or 500 comes only with
\* state "error".
C8_ErrorShape ==
    HasResponse =>
        LET r == TheResponse
        IN /\ Has(r.body, "error") <=> (r.body.state = "error")
           /\ Has(r.body, "error") =>
                /\ {"code", "message"} \subseteq DOMAIN r.body.error
                /\ DOMAIN r.body.error \subseteq {"code", "message", "cause"}
           /\ r.body.state = "error" => ~Has(r.body, "result")
           /\ r.status \in {400, 410, 500} => r.body.state = "error"

\* An operation past its sunset was answered 410 in state "error".
C8_Witness ==
    /\ ReturnedFrom("checkSunset")
    /\ call.ret # JsUndefined
    /\ call.ret.status = 410
    /\ call.ret.body.state = "error"
    /\ Has(call.ret.body, "error")

\* The stages in their fixed order.
StageOrder == <<"envelope", "resolve", "sunset", "args", "handler">>

\* The number of the stage that ends the synchronous part of the pipeline for
\* rawBody at time clock: the first stage that fails, or 5, the handler.
LastStage(rawBody, mods, clock) ==
    IF ~EnvelopeConforms(rawBody) THEN 1
    ELSE LET op == rawBody.o.op.s
             args == IF Has(rawBody.o, "args") THEN rawBody.o.args
                     ELSE JsObj(EmptyObj)
         IN IF op \notin DOMAIN mods THEN 2
            ELSE IF /\ Has(mods[op], "sunset")
                    /\ ~DateGetTime(mods[op].sunset).nan
                    /\ clock > DateGetTime(mods[op].sunset).ms THEN 3
            ELSE IF ZodParse(ArgsSchema(mods[op].args), args).issues # <<>> THEN 4
            ELSE 5

\* C3: a request runs the stages in the order envelope validation, operation
\* resolution, sunset check, argument validation, handler invocation; the
\* first failing stage gives the terminal response and no later stage runs;
\* the handler is invoked only after the four earlier stages passed; a request
\* to a past-sunset operation with args that fail the schema gets 410
\* OP_REMOVED, not 400 SCHEMA_VALIDATION_FAILED.
C3_StagesInOrder ==
    \A r \in Requests :
        reqs[r].pc # "idle" =>
            LET q == reqs[r]
                last == LastStage(q.rawBody, modules, q.at)
            IN /\ q.ran = SubSeq(StageOrder, 1, last)
               /\ (q.pc = "awaiting" \/ Has(q, "outcome")) <=> (last = 5)
               /\ last = 1 =>
                    /\ q.pc = "done"
                    /\ q.response.status = 400
                    /\ q.response.body.error.code = "INVALID_ENVELOPE"
               /\ last = 2 => q.pc = "done" /\ ~Has(q, "response")
               /\ last = 3 =>
                    /\ q.pc = "done"
                    /\ q.response.status = 410
                    /\ q.response.body.error.code = "OP_REMOVED"
               /\ last = 4 =>
                    /\ q.pc = "done"
                    /\ q.response.status = 400
                    /\ q.response.body.error.code = "SCHEMA_VALIDATION_FAILED"

\* A request to the operation past its sunset, with args that fail the schema,
\* was answered 410 OP_REMOVED after three stages, while another request had
\* its handler invoked.
C3_Witness ==
    \E r, h \in Requests :
        /\ reqs[r].pc = "done"
        /\ EnvelopeConforms(reqs[r].rawBody)
        /\ Has(reqs[r].rawBody.o, "args")
        /\ reqs[r].rawBody.o.op = JsStr("v1:old.op")
        /\ reqs[r].rawBody.o.args = JsObj([name |-> JsNum(123)])
        /\ reqs[r].at = 3
        /\ reqs[r].ran = <<"envelope", "resolve", "sunset">>
        /\ reqs[r].response.status = 410
        /\ reqs[h].pc = "awaiting"
        /\ reqs[h].ran = StageOrder

\* C9 (as claimed): every response body of validateArgs, checkSunset,
\* formatResponse and safeHandlerCall carries the requestId it was given and,
\* when a sessionId was supplied, that sessionId.
C9_IdsCarried ==
    (HasResponse /\ call.fn # "validateEnvelope") =>
        /\ TheResponse.body.requestId = call.requestId
        /\ call.sessionId # JsUndefined =>
                /\ Has(TheResponse.body, "sessionId")
                /\ TheResponse.body.sessionId = call.sessionId.s

\* The descriptors built so far, each with the tags or metadata and the
\* module of the source it was built from.
BuiltSources ==
    IF build.pc = "idle" THEN <<>>
    ELSE IF build.path = "scan"
    THEN [i \in DOMAIN build.entries |->
            [entry |-> build.entries[i],
             given |-> ParsedFiles[build.imported[i]],
             module |-> FileModule(build.imported[i])]]
    ELSE [i \in DOMAIN build.moduleEntries |->
            [entry |-> build.result.registry.operations[i],
             given |-> build.moduleEntries[i].meta,
             module |-> build.moduleEntries[i].module]]

\* The defaults of a descriptor, and no deprecated field.
HasDefaults(entry) ==
    /\ entry.executionModel = "sync"
    /\ entry.maxSyncMs = JsNum(5000)
    /\ entry.ttlSeconds = JsNum(0)
    /\ entry.authScopes = <<>>
    /\ entry.cachingPolicy = "none"
    /\ entry.sideEffecting = FALSE
    /\ entry.idempotencyRequired = FALSE
    /\ ~Has(entry, "deprecated")

\* C10 (as claimed): a source that supplies no tag or metadata other than op,
\* in either build path, gets a descriptor with executionModel "sync",
\* maxSyncMs 5000, ttlSeconds 0, authScopes [], cachingPolicy "none",
\* sideEffecting false, idempotencyRequired false and no deprecated, sunset or
\* replacement field.
C10_DefaultsNoLifecycle ==
    \A i \in DOMAIN BuiltSources :
        LET src == BuiltSources[i] IN
        DOMAIN src.given = {"op"} =>
            /\ HasDefaults(src.entry)
            /\ ~Has(src.entry, "sunset")
            /\ ~Has(src.entry, "replacement")

\* C10 (amended): a source that supplies no tag or metadata other than op
\* gets a descriptor with the defaults above and no deprecated field; the
\* descriptor has no sunset or replacement field, except that in the
\* pre-resolved path it carries the sunset (replacement) the module itself
\* declares, when the module declares a non-empty one.
C10_DefaultsModuleLifecycle ==
    \A i \in DOMAIN BuiltSources :
        LET src == BuiltSources[i] IN
        DOMAIN src.given = {"op"} =>
            /\ HasDefaults(src.entry)
            /\ \A k \in {"sunset", "replacement"} :
                IF /\ build.path = "modules"
                   /\ Has(src.module, k)
                   /\ src.module[k] # ""
                THEN Has(src.entry, k) /\ src.entry[k] = src.module[k]
                ELSE ~Has(src.entry, k)

\* A pre-resolved build had an entry with only op in its metadata whose module
\* declares a sunset: the descriptor has the defaults and the module's sunset.
C10_Witness ==
    /\ build.pc = "done"
    /\ build.path = "modules"
    /\ \E i \in DOMAIN BuiltSources :
        /\ DOMAIN BuiltSources[i].given = {"op"}
        /\ Has(BuiltSources[i].module, "sunset")
        /\ HasDefaults(BuiltSources[i].entry)
        /\ Has(BuiltSources[i].entry, "sunset")

\* The build in hand and the build kept have both ended.
BothBuilt ==
    /\ prior # NoBuild
    /\ build.pc \in {"done", "failed"}

\* The two builds had identical input: the path, the sources in the same
\* order, the options and the environment.
SameInput ==
    /\ build.path = prior.path
    /\ build.options = prior.options
    /\ build.env = prior.env
    /\ IF build.path = "scan" THEN build.listing = prior.listing
       ELSE build.moduleEntries = prior.moduleEntries

Range(s) == {s[i] : i \in DOMAIN s}

C13_ModulesMatchOperations ==
    build.pc = "done" =>
        LET operations == build.result.registry.operations
        IN /\ \A i \in DOMAIN operations :
                operations[i].op \in DOMAIN build.result.modules
           /\ \A k \in DOMAIN build.result.modules :
                \E i \in DOMAIN operations : operations[i].op = k

\* A directory scan ended with two descriptors and two modules.
C13_Witness ==
    /\ build.pc = "done"
    /\ build.path = "scan"
    /\ Len(build.result.registry.operations) = 2
    /\ Cardinality(DOMAIN build.result.modules) = 2

\* C14 (as claimed): after a build, for every module stored under key k that
\* has a sunset, every descriptor of registry.operations whose op is k carries
\* the same sunset, and likewise for replacement.
C14_LifecycleInSync ==
    build.pc = "done" =>
        LET operations == build.result.registry.operations
            stored == build.result.modules
        IN \A k \in DOMAIN stored : \A f \in {"sunset", "replacement"} :
            Has(stored[k], f) =>
                \A i \in DOMAIN operations :
                    operations[i].op = k =>
                        /\ Has(operations[i], f)
                        /\ operations[i][f] = stored[k][f]

\* The metadata equal to the tags: the numeric fields typed.
TypedMeta(tags) ==
    [k \in DOMAIN tags \ {"timeout", "ttl"} |-> tags[k]]
    @@ [k \in DOMAIN tags \cap {"timeout", "ttl"} |-> ParseInt(tags[k])]

\* The sunset and replacement of a stored module.
Lifecycle(module) ==
    [k \in DOMAIN module \cap {"sunset", "replacement"} |-> module[k]]

\* C15 (as claimed): for the modules of a finished directory scan, the
\* pre-resolved path given each module with metadata equal to its extracted
\* tags produces equal descriptors and equal sunset/replacement values on the
\* stored modules, also for a module that exports its own sunset/replacement.
C15_PathsEquivalent ==
    (build.pc = "done" /\ build.path = "scan") =>
        LET moduleEntries ==
                [i \in DOMAIN build.imported |->
                    [module |-> FileModule(build.imported[i]),
                     meta |-> TypedMeta(ParsedFiles[build.imported[i]])]]
            other == buildRegistryFromModules(moduleEntries, build.options,
                                              build.env)
        IN /\ other.registry.operations = build.result.registry.operations
           /\ DOMAIN other.modules = DOMAIN build.result.modules
           /\ \A k \in DOMAIN other.modules :
                Lifecycle(other.modules[k]) = Lifecycle(build.result.modules[k])

\* Does object o carry value v in field f?  An empty value is carried by the
\* absence of the field.
Carries(o, f, v) == IF v = "" THEN ~Has(o, f) ELSE Has(o, f) /\ o[f] = v

C17_FlagsAreMembers ==
    \A i \in DOMAIN BuiltSources :
        LET src == BuiltSources[i]
            members == IF Has(src.given, "flags")
                       THEN Range(SplitWhiteSpace(src.given.flags)) ELSE {}
        IN /\ src.entry.sideEffecting = ("sideEffecting" \in members)
           /\ src.entry.idempotencyRequired = ("idempotencyRequired" \in members)
           /\ IF "deprecated" \in members
              THEN Has(src.entry, "deprecated") /\ src.entry.deprecated = TRUE
              ELSE ~Has(src.entry, "deprecated")

\* C18 (as claimed): every descriptor of either build path has executionModel
\* "sync" or "async", cachingPolicy "none", "server" or "location", a
\* positive integer maxSyncMs and a non-negative integer ttlSeconds.
C18_DescriptorDomains ==
    \A i \in DOMAIN BuiltSources :
        LET entry == BuiltSources[i].entry
        IN /\ entry.executionModel \in {"sync", "async"}
           /\ entry.cachingPolicy \in {"none", "server", "location"}
           /\ Has(entry.maxSyncMs, "n") /\ entry.maxSyncMs.n > 0
           /\ Has(entry.ttlSeconds, "n") /\ entry.ttlSeconds.n >= 0

\* The tags of the lines of a block, as the claim maps them: each name to the
\* trimmed values of its lines, in order, joined by single spaces.
RECURSIVE TagsOfLines(_)
TagsOfLines(lines) ==
    IF lines = <<>> THEN EmptyObj
    ELSE LET line == lines[Len(lines)]
             before == TagsOfLines(SubSeq(lines, 1, Len(lines) - 1))
         IN IF ~Has(line, "name") THEN before
            ELSE IF Has(before, line.name)
            THEN [before EXCEPT ![line.name] = @ \o " " \o Trim(line.value)]
            ELSE (line.name :> Trim(line.value)) @@ before

\* The values of the lines of a block that carry the tag name, in order.
ValuesOf(lines, name) ==
    LET tagged == SelectSeq(lines, LAMBDA l : Has(l, "name") /\ l.name = name)
    IN [i \in DOMAIN tagged |-> Trim(tagged[i].value)]

\* C19 (as claimed): parseJSDoc maps every tag name of the first block to the
\* values of all its occurrences in the block, joined by a single space in
\* order of appearance, a tag that occurs once to its trimmed value; the
\* authScopes built from the result list the scopes of the repeated @security
\* tags in order of appearance.
C19_TagsAccumulated ==
    (ReturnedFrom("parseJSDoc") /\ call.doc.blocks # <<>>) =>
        LET lines == call.doc.blocks[1].lines
        IN /\ call.ret = TagsOfLines(lines)
           /\ Has(call.ret, "op") =>
                buildEntry(greetingModule, call.ret).authScopes
                    = ValuesOf(lines, "security")

\* The names of the tag lines of a block.
TagNames(b) ==
    {b.lines[i].name : i \in {j \in DOMAIN b.lines : Has(b.lines[j], "name")}}

\* C20: parseJSDoc inspects only the first documentation block: the result is
\* the result for the text without the later blocks and has no tag name that
\* the first block lacks, and it is the empty mapping when the text has no
\* documentation block or the first block has no tags.
C20_FirstBlockOnly ==
    ReturnedFrom("parseJSDoc") =>
        IF call.doc.blocks = <<>> THEN call.ret = EmptyObj
        ELSE LET first == call.doc.blocks[1]
                 alone == [lead |-> call.doc.lead, blocks |-> <<first>>]
             IN /\ call.ret = parseJSDoc(SourceText(alone))
                /\ DOMAIN call.ret \subseteq TagNames(first)
                /\ TagNames(first) = {} => call.ret = EmptyObj

\* A text with ordinary comments that hold tags, a first block with an op tag
\* and a later block with another op tag was parsed: the op is the first's.
C20_Witness ==
    /\ ReturnedFrom("parseJSDoc")
    /\ IndexOfFrom(call.doc.lead, "@op", 1) # 0
    /\ Len(call.doc.blocks) = 2
    /\ call.doc.blocks[1].lines = <<[name |-> "op", value |-> "v1:catalog.list"]>>
    /\ call.doc.blocks[2].lines = <<[name |-> "op", value |-> "v1:later.op"]>>
    /\ call.ret = [op |-> "v1:catalog.list"]

\* Does the name of file end with ext?
EndsWith(file, ext) ==
    /\ Len(file) >= Len(ext)
    /\ SubSeq(file, Len(file) - Len(ext) + 1, Len(file)) = ext

\* The scan of a build: what was read and imported never leaves the listed
\* files with the extension and, of these, the accepted ones, and a finished
\* build has one descriptor and one registration for each accepted file, in
\* the order of the listing.
ScanYields(accepts(_)) ==
    build.pc # "idle" /\ build.path = "scan" =>
        LET ext == IF Has(build.options, "ext") THEN build.options.ext ELSE ".ts"
            listed == SelectSeq(build.listing, LAMBDA f : EndsWith(f, ext))
            accepted == SelectSeq(listed, accepts)
        IN /\ Len(build.read) <= Len(listed)
           /\ Len(build.imported) <= Len(accepted)
           /\ \A i \in DOMAIN build.read : build.read[i] = listed[i]
           /\ \A i \in DOMAIN build.imported : build.imported[i] = accepted[i]
           /\ build.pc = "done" =>
                /\ build.read = listed
                /\ build.imported = accepted
                /\ Len(build.result.registry.operations) = Len(accepted)
                /\ \A i \in DOMAIN accepted :
                    build.result.registry.operations[i].op
                        = ParsedFiles[accepted[i]]["op"]
                /\ DOMAIN build.result.modules
                    = {ParsedFiles[accepted[i]]["op"] : i \in DOMAIN accepted}

\* C21 (as claimed): buildRegistry yields, in the order of the listing, one
\* descriptor and one registration for each listed file whose extension is
\* ext and whose tag map has an op entry; no other file is read, and a file
\* without an op tag is never imported and contributes nothing.
C21_OneDescriptorPerOpFile ==
    ScanYields(LAMBDA f : Has(ParsedFiles[f], "op"))

\* C21 (amended): the same, for each listed file whose extension is ext and
\* whose tag map has a non-empty op entry; a file without an op tag, or with
\* an empty one, is never imported and contributes nothing.
C21_OneDescriptorPerNonEmptyOpFile ==
    ScanYields(LAMBDA f : Has(ParsedFiles[f], "op") /\ ParsedFiles[f]["op"] # "")

\* A scan of a file without an op tag and a file with one, in this order,
\* ended with the one descriptor of the second.
C21_Witness ==
    /\ build.pc = "done"
    /\ build.path = "scan"
    /\ build.listing = <<"no-op-tag.ts", "greeting.ts">>
    /\ build.read = build.listing
    /\ build.imported = <<"greeting.ts">>
    /\ Len(build.result.registry.operations) = 1
    /\ DOMAIN build.result.modules = {"v1:greeting.hello"}

\* The exports a module must have.
RequiredExports == {"args", "result", "handler"}

\* C22 (as claimed): in the source-scanned path a file with an @op tag whose
\* module lacks a required export makes the whole build fail: once such a file
\* is imported the build has failed and has no registry and no modules map.
C22_MissingExportFails ==
    (build.pc # "idle" /\ build.path = "scan") =>
        \A i \in DOMAIN build.imported :
            ~(RequiredExports \subseteq DOMAIN FileModule(build.imported[i])) =>
                /\ build.pc = "failed"
                /\ ~Has(build, "result")

\* The outcome of a request run alone over mods, dispatched at time clock:
\* the response of the first stage that fails, no module found, the handler
\* awaited, or the response to the handler's outcome.
DispatchAlone(rawBody, mods, clock, outcomes) ==
    LET e == validateEnvelope(rawBody) IN
    IF ~e.ok THEN [response |-> e.error]
    ELSE
    LET op == e.envelope.op.s
        ctx == IF Has(e.envelope, "ctx") THEN e.envelope.ctx.o ELSE EmptyObj
        requestId == IF Has(ctx, "requestId") THEN ctx.requestId.s
                     ELSE GeneratedRequestId
        sessionId == IF Has(ctx, "sessionId") THEN ctx.sessionId ELSE JsUndefined
    IN
    IF op \notin DOMAIN mods THEN [notFound |-> op]
    ELSE
    LET removed == checkSunset(mods[op], op, requestId, sessionId, clock)
        a == validateArgs(mods[op], e.envelope.args, requestId, sessionId)
    IN
    IF removed # JsUndefined THEN [response |-> removed]
    ELSE IF ~a.ok THEN [response |-> a.error]
    ELSE IF outcomes = <<>> THEN [awaiting |-> op]
    ELSE [response |-> safeHandlerCall(outcomes[1], requestId, sessionId)]

\* C23: under every interleaving of the requests over the same modules map,
\* each request's response is the response it would get if run alone with the
\* same clock reading and the same handler outcome, and the modules map and
\* its modules stay as they were.
C23_DispatchesIndependent ==
    /\ modules = DispatchModules
    /\ \A r \in Requests :
        reqs[r].pc # "idle" =>
            LET q == reqs[r]
                alone == DispatchAlone(q.rawBody, DispatchModules, q.at,
                            IF Has(q, "outcome") THEN <<q.outcome>> ELSE <<>>)
            IN /\ Has(q, "response") <=> Has(alone, "response")
               /\ Has(q, "response") => q.response = alone.response
               /\ Has(q, "notFound") <=> Has(alone, "notFound")
               /\ (q.pc = "awaiting") <=> Has(alone, "awaiting")

\* A request without a ctx was dispatched and answered while an earlier
\* request, with a ctx, was still awaiting its handler.
C23_Witness ==
    \E r, h \in Requests :
        /\ reqs[h].pc = "awaiting"
        /\ reqs[h].requestId = Uuid1
        /\ reqs[r].pc = "done"
        /\ Has(reqs[r], "outcome")
        /\ reqs[r].at > reqs[h].at
        /\ reqs[r].response.status = 200
        /\ reqs[r].response.body.requestId = GeneratedRequestId

\* C24: safeHandlerCall invokes the handler exactly once per call, with
\* exactly the supplied handlerArgs in order, also after the handler threw a
\* DomainError or any other value.
C24_HandlerInvokedOnce ==
    call.fn = "safeHandlerCall" => call.invoked = <<call.handlerArgs>>

\* A handler given two arguments threw a value that is not a DomainError and
\* safeHandlerCall answered 500 after the one invocation.
C24_Witness ==
    /\ ReturnedFrom("safeHandlerCall")
    /\ call.handlerArgs = <<JsStr("x"), JsStr("y")>>
    /\ call.outcome.kind = "throw"
    /\ call.outcome.value.t # "DomainError"
    /\ call.ret.status = 500
    /\ Len(call.invoked) = 1

\* The objects a finished build returned: the registry, its operations array,
\* the descriptors, the modules map and the modules stored in it.
ReturnedRefs(b) ==
    {b.refs.registry, b.refs.operations, b.refs.modules}
    \cup Range(b.refs.descriptors) \cup Range(b.refs.stored)

\* The objects a build was given: its modules and, in the pre-resolved path,
\* the metadata objects.
GivenRefs(b) ==
    IF b.path = "scan"
    THEN {InputRef(FileModule(b.imported[i])) : i \in DOMAIN b.imported}
    ELSE {InputRef(b.moduleEntries[i].module) : i \in DOMAIN b.moduleEntries}
         \cup {InputRef(b.moduleEntries[i].meta) : i \in DOMAIN b.moduleEntries}

\* C25: a build writes to none of the objects it was given, the module it
\* stores is a new object also when sunset or replacement come from the
\* metadata, and the objects one build returns are distinct from those another
\* build returns.
C25_BuildsShareNothing ==
    build.pc = "done" =>
        /\ build.refs.written \cap GivenRefs(build) = {}
        /\ Range(build.refs.stored) \cap GivenRefs(build) = {}
        /\ prior.pc = "done" =>
                ReturnedRefs(build) \cap ReturnedRefs(prior) = {}

\* Two pre-resolved builds of the same entry, whose metadata supplies the
\* sunset of a module that has its own, have ended.
C25_Witness ==
    /\ build.pc = "done"
    /\ prior.pc = "done"
    /\ build.path = "modules"
    /\ build.moduleEntries = prior.moduleEntries
    /\ Len(build.moduleEntries) = 1
    /\ build.moduleEntries[1].module = farewellModule
    /\ Has(build.moduleEntries[1].meta, "sunset")
    /\ build.result.modules["v1:greeting.farewell"].sunset = "2026-06-01"
    /\ build.refs.stored[1] # prior.refs.stored[1]

\* C26: the body formatResponse produces carries each of result, location,
\* retryAfterMs and expiresAt exactly when the handler's result set the field,
\* with the handler's value; an absent field is not defaulted.
C26_OptionalFieldsCarried ==
    (\/ ReturnedFrom("formatResponse")
     \/ ReturnedFrom("safeHandlerCall") /\ call.outcome.kind = "return") =>
        LET opResult == IF call.fn = "formatResponse" THEN call.opResult
                        ELSE call.outcome.value
        IN \A k \in {"result", "location", "retryAfterMs", "expiresAt"} :
            /\ Has(call.ret.body, k) <=> Has(opResult, k)
            /\ Has(opResult, k) => call.ret.body[k] = opResult[k]

\* A result with a null result and retryAfterMs 0, and no location or
\* expiresAt, was formatted: the body carries the two and lacks the others.
C26_Witness ==
    /\ ReturnedFrom("formatResponse")
    /\ DOMAIN call.opResult = {"state", "result", "retryAfterMs"}
    /\ call.opResult.result = JsNull
    /\ call.opResult.retryAfterMs = 0
    /\ call.ret.body.result = JsNull
    /\ call.ret.body.retryAfterMs = 0
    /\ ~Has(call.ret.body, "location")
    /\ ~Has(call.ret.body, "expiresAt")

\* The accepted sources of a finished build, in order: the module and the
\* tags of each.
AcceptedSources ==
    IF build.path = "scan"
    THEN [i \in DOMAIN build.imported |->
            [module |-> FileModule(build.imported[i]),
             tags |-> ParsedFiles[build.imported[i]]]]
    ELSE [i \in DOMAIN build.moduleEntries |->
            [module |-> build.moduleEntries[i].module,
             tags |-> MetaTags(build.moduleEntries[i].module,
                               build.moduleEntries[i].meta)]]

\* C27: the modules map of a finished build holds one entry for each op the
\* accepted sources declare, bound to the module of the last source that
\* declares it, while registry.operations has one descriptor per accepted
\* source, in order; so the size of the map is the number of distinct ops and
\* equals registry.operations.length only when all ops are distinct.
C27_LastWriteWins ==
    build.pc = "done" =>
        LET sources == AcceptedSources
            operations == build.result.registry.operations
            stored == build.result.modules
            ops == {sources[i].tags["op"] : i \in DOMAIN sources}
            distinct == \A i, j \in DOMAIN sources :
                            sources[i].tags["op"] = sources[j].tags["op"] => i = j
        IN /\ Len(operations) = Len(sources)
           /\ \A i \in DOMAIN sources : operations[i].op = sources[i].tags["op"]
           /\ DOMAIN stored = ops
           /\ \A i \in DOMAIN sources :
                (\A j \in DOMAIN sources :
                    sources[j].tags["op"] = sources[i].tags["op"] => j <= i)
                => stored[sources[i].tags["op"]]
                        = buildOpModule(sources[i].module, sources[i].tags)
           /\ Cardinality(DOMAIN stored) = Cardinality(ops)
           /\ (Cardinality(DOMAIN stored) = Len(operations)) <=> distinct

\* A scan of two files that declare the same op, the first with a sunset and
\* the second without, ended with two descriptors and one stored module, which
\* has no sunset.
C27_Witness ==
    /\ build.pc = "done"
    /\ build.path = "scan"
    /\ build.listing = <<"farewell.ts", "loose.ts">>
    /\ Len(build.result.registry.operations) = 2
    /\ DOMAIN build.result.modules = {"v1:greeting.farewell"}
    /\ Has(build.result.registry.operations[1], "sunset")
    /\ ~Has(build.result.modules["v1:greeting.farewell"], "sunset")

\* A DispatchResult: a status and a body with the requestId.
IsDispatchResult(d) ==
    /\ DOMAIN d = {"status", "body"}
    /\ d.status \in Nat
    /\ Has(d.body, "requestId")

\* C28 (as claimed): whatever the handler does (returns an OperationResult or
\* another value, throws a DomainError or any other value), safeHandlerCall
\* settles only once the handler has, never rejects, and resolves to exactly
\* one DispatchResult.
C28_CatchAllBoundary ==
    call.fn = "safeHandlerCall" =>
        LET completed == Has(call, "outcome") \/ Has(call, "behaviour")
            resolved == IF Returned THEN <<call.ret>>
                        ELSE IF Has(call, "settled") /\ Has(call.settled, "resolved")
                        THEN <<call.settled.resolved>>
                        ELSE <<>>
        IN /\ completed <=> (call.phase # "awaiting")
           /\ ~completed => resolved = <<>>
           /\ completed =>
                /\ Len(resolved) = 1
                /\ IsDispatchResult(resolved[1])

\* C29: checkSunset returns OP_REMOVED only for a sunset string that parses to
\* an instant strictly before the time of the call; a module whose sunset is
\* the empty string, or a string that is no date, passes at every time.
C29_UnparsedSunsetPasses ==
    ReturnedFrom("checkSunset") =>
        LET op == call.operation
            unparsed == Has(op, "sunset")
                        /\ (op.sunset = "" \/ DateGetTime(op.sunset).nan)
        IN /\ call.ret # JsUndefined =>
                /\ Has(op, "sunset")
                /\ ~DateGetTime(op.sunset).nan
                /\ DateGetTime(op.sunset).ms < call.at
                /\ call.ret.body.error.code = "OP_REMOVED"
           /\ unparsed => call.ret = JsUndefined

\* A module whose sunset is no date passed the check late on the clock.
C29_Witness ==
    /\ ReturnedFrom("checkSunset")
    /\ Has(call.operation, "sunset")
    /\ call.operation.sunset = "not-a-date"
    /\ call.at >= 3
    /\ call.ret = JsUndefined

\* Is the value checkSunset returned the 410 OP_REMOVED response?
IsRemoved(ret) == ret # JsUndefined /\ ret.status = 410

\* C30: for a fixed module, a call of checkSunset that returns 410 OP_REMOVED
\* is followed by 410 OP_REMOVED at every later reading of the clock, and a
\* call that passes was preceded by passes at every earlier reading.
C30_RemovalIsPermanent ==
    ReturnedFrom("checkSunset") =>
        LET at(clock) == checkSunset(call.operation, call.opName, call.requestId,
                                     call.sessionId, clock)
        IN /\ IsRemoved(call.ret) =>
                \A later \in call.at..MaxClock : IsRemoved(at(later))
           /\ ~IsRemoved(call.ret) =>
                \A earlier \in 0..call.at : at(earlier) = JsUndefined

\* A module whose sunset is the epoch was found removed one millisecond
\* later, between a reading that passes and the later readings.
C30_Witness ==
    /\ ReturnedFrom("checkSunset")
    /\ Has(call.operation, "sunset")
    /\ call.operation.sunset = "1970-01-01"
    /\ call.at = 1
    /\ IsRemoved(call.ret)
    /\ checkSunset(call.operation, call.opName, call.requestId,
                   call.sessionId, 0) = JsUndefined

====
